---------------------------- MODULE Spec2Model ----------------------------
(***************************************************************************)
(* A model of the CMOST natural-history engine (NumberCrunching_100000),   *)
(* its procedure simulators (Colonoscopy, RectoSigmo) and its cost         *)
(* allocator (AddCosts), src/python/NumberCrunching_100000.py.             *)
(*                                                                         *)
(* Conventions.  Simulated time is counted in quarters: the code's         *)
(* time = y + (q-1)/4 years is 4*y + (q-1) here, so every comparison of    *)
(* the code between times is the same comparison between integers.  The    *)
(* code's numpy arrays are sequences; the code's 0-based slot i is         *)
(* position i+1.  A random draw compared with a configured probability is  *)
(* a nondeterministic choice, restricted to FALSE when the configuration   *)
(* makes the probability zero.                                             *)
(***************************************************************************)
EXTENDS Integers, Sequences, FiniteSets, TLC

\* ------------------------------------------------------------------ bounds
\* The simulation horizon (100 years in the code), scaled down.
MaxYear == 2
\* Capacity of the polyp list (50 in the code; the arrays are one slot wider).
PolypCap == 2
\* Width of the undetected-cancer arrays (25 in the code).
CaCap == 2
\* Width of the detected-cancer arrays (50 in the code).
DetCap == 2
\* Rows of AddCosts' SubCost work array (25 in the code, half of DetCap's 50).
SubCostRows == 1
\* The last year in which the cost allocator is applied on its own.
CostYears == 11

\* ------------------------------------------------------- array primitives
Max2(a, b) == IF a >= b THEN a ELSE b
Min2(a, b) == IF a <= b THEN a ELSE b

Zeros(w) == [i \in 1..w |-> 0]

\* np.count_nonzero(arr)
count_nonzero(arr) == Cardinality({i \in 1..Len(arr) : arr[i] # 0})

\* 0-based index of the last non-zero element, -1 if there is none
find_last_nonzero(arr) ==
    LET nz == {i \in 1..Len(arr) : arr[i] # 0}
    IN  IF nz = {} THEN -1 ELSE (CHOOSE i \in nz : \A j \in nz : j <= i) - 1

\* np.sum(arr) of a non-negative array is positive iff some element is
SumPositive(arr) == \E i \in 1..Len(arr) : arr[i] > 0

\* np.max(arr)
ArrayMax(arr) == CHOOSE m \in {arr[i] : i \in 1..Len(arr)} :
                     \A i \in 1..Len(arr) : arr[i] <= m

\* arr[f:l+1] = np.append(arr[f+1:l+1], 0) with 0-based f, l.  When l < f
\* the target slice is empty and the one-element right-hand side broadcasts
\* into it: nothing is written.
ShiftLeft(arr, f, l) ==
    [i \in 1..Len(arr) |->
        IF f + 1 <= i /\ i <= l /\ i + 1 <= Len(arr) THEN arr[i + 1]
        ELSE IF i = l + 1 /\ l >= f THEN 0
        ELSE arr[i]]

\* One patient's five polyp arrays, all shifted alike.
shift_left_polyp(P, f, l) ==
    [Polyps           |-> ShiftLeft(P.Polyps, f, l),
     PolypYear        |-> ShiftLeft(P.PolypYear, f, l),
     PolypLocation    |-> ShiftLeft(P.PolypLocation, f, l),
     EarlyProgression |-> ShiftLeft(P.EarlyProgression, f, l),
     AdvProgression   |-> ShiftLeft(P.AdvProgression, f, l)]

\* The shift with the symptom time left where it was.
shift_left_cancer_but_SympTime(C, f, l) ==
    [Cancer         |-> ShiftLeft(C.Cancer, f, l),
     CancerYear     |-> ShiftLeft(C.CancerYear, f, l),
     CancerLocation |-> ShiftLeft(C.CancerLocation, f, l),
     DwellTime      |-> ShiftLeft(C.DwellTime, f, l),
     SympTime       |-> C.SympTime,
     SympStage      |-> ShiftLeft(C.SympStage, f, l),
     TimeStage_I    |-> ShiftLeft(C.TimeStage_I, f, l),
     TimeStage_II   |-> ShiftLeft(C.TimeStage_II, f, l),
     TimeStage_III  |-> ShiftLeft(C.TimeStage_III, f, l)]

\* One patient's nine undetected-cancer arrays, all shifted alike.
shift_left_cancer(C, f, l) ==
    [Cancer         |-> ShiftLeft(C.Cancer, f, l),
     CancerYear     |-> ShiftLeft(C.CancerYear, f, l),
     CancerLocation |-> ShiftLeft(C.CancerLocation, f, l),
     DwellTime      |-> ShiftLeft(C.DwellTime, f, l),
     SympTime       |-> ShiftLeft(C.SympTime, f, l),
     SympStage      |-> ShiftLeft(C.SympStage, f, l),
     TimeStage_I    |-> ShiftLeft(C.TimeStage_I, f, l),
     TimeStage_II   |-> ShiftLeft(C.TimeStage_II, f, l),
     TimeStage_III  |-> ShiftLeft(C.TimeStage_III, f, l)]

\* arr[i] = v for the 0-based slot i
Put(arr, i, v) == [arr EXCEPT ![i + 1] = v]


\* ------------------------------------------------------------------ state
VARIABLES
    cfg,               \* the run's inputs: cohort size, flags, which rates are zero
    y, z, q, pc,       \* year 1.., patient 0.., quarter 1..4, position in the loop body
    Included, Alive, DeathCause, DeathYear, NaturalDeathYear,
    Polyp,             \* Polyp[z]: the five Polyp_* arrays of patient z
    Ca,                \* Ca[z]: the nine Ca_* arrays of patient z
    Detected,          \* Detected[z]: the four Detected_* arrays of patient z
    Last,              \* Last[z]: Last_Colonoscopy, Last_Polyp, Last_AdvPolyp, Last_Cancer, Last_ScreenTest
    ScreeningPreference,
    YearIncluded,      \* YearIncluded[y]: the snapshot of Included taken at the end of year y
    Prevalence,        \* the current year's rows of NumPolyps, MaxPolyps, NumCancer, MaxCancer
    TumorRecord,       \* the current year's row of the TumorRecord_* arrays, in order of entry
    DwellTimeProgression,  \* non-zero entries in the current year's row of DwellTimeProgression
    DwellTimeFastCancer,   \* non-zero entries in the current year's row of DwellTimeFastCancer
    ProgressedCancer,      \* the current year's entry of ProgressedCancer
    DirectCancerCount,     \* the current year's column of DirectCancer, by polyp stage 1..5
    costLog,           \* costLog[z]: the AddCosts calls made for patient z and what they allocated
    calls,             \* the procedures the last step performed: <<name, patient, Modus, Included at entry>>
    fault              \* "none", or the array whose index ran out of bounds (the run aborts)

vars == <<cfg, y, z, q, pc, Included, Alive, DeathCause, DeathYear, NaturalDeathYear,
          Polyp, Ca, Detected, Last, ScreeningPreference, YearIncluded, Prevalence,
          TumorRecord, DwellTimeProgression, DwellTimeFastCancer,
          ProgressedCancer, DirectCancerCount, costLog, calls, fault>>

\* time = y + (q - 1) / 4.0, in quarters
time == 4 * y + (q - 1)

\* the sentinel 1000 (years) of a threshold that is never reached
Never == 4 * 1000

Patients == 0 .. (cfg.n - 1)

\* flag.get(name, False)
flag(name) == name \in cfg.flag

EmptyPolyp ==
    [Polyps |-> Zeros(PolypCap + 1), PolypYear |-> Zeros(PolypCap + 1),
     PolypLocation |-> Zeros(PolypCap + 1), EarlyProgression |-> Zeros(PolypCap + 1),
     AdvProgression |-> Zeros(PolypCap + 1)]

EmptyCa ==
    [Cancer |-> Zeros(CaCap), CancerYear |-> Zeros(CaCap), CancerLocation |-> Zeros(CaCap),
     DwellTime |-> Zeros(CaCap), SympTime |-> Zeros(CaCap), SympStage |-> Zeros(CaCap),
     TimeStage_I |-> Zeros(CaCap), TimeStage_II |-> Zeros(CaCap),
     TimeStage_III |-> Zeros(CaCap)]

EmptyDetected ==
    [Cancer |-> Zeros(DetCap), CancerYear |-> Zeros(DetCap),
     CancerLocation |-> Zeros(DetCap), MortTime |-> Zeros(DetCap)]

NoHistory == 0 - 100

EmptyLast ==
    [Colonoscopy |-> 0, Polyp |-> NoHistory, AdvPolyp |-> NoHistory,
     Cancer |-> NoHistory, ScreenTest |-> 0]

\* The part of the state the procedures and AddCosts work on, as one value.
World ==
    [Included |-> Included, DeathCause |-> DeathCause, DeathYear |-> DeathYear,
     Polyp |-> Polyp, Ca |-> Ca, Detected |-> Detected, Last |-> Last,
     TumorRecord |-> TumorRecord, DwellTimeProgression |-> DwellTimeProgression,
     DwellTimeFastCancer |-> DwellTimeFastCancer,
     ProgressedCancer |-> ProgressedCancer, DirectCancer |-> DirectCancerCount,
     ScreeningPreference |-> ScreeningPreference,
     costLog |-> costLog, calls |-> << >>, fault |-> "none"]

SetWorld(W) ==
    /\ Included' = W.Included
    /\ DeathCause' = W.DeathCause
    /\ DeathYear' = W.DeathYear
    /\ Polyp' = W.Polyp
    /\ Ca' = W.Ca
    /\ Detected' = W.Detected
    /\ Last' = W.Last
    /\ TumorRecord' = W.TumorRecord
    /\ DwellTimeProgression' = W.DwellTimeProgression
    /\ DwellTimeFastCancer' = W.DwellTimeFastCancer
    /\ ProgressedCancer' = W.ProgressedCancer
    /\ DirectCancerCount' = W.DirectCancer
    /\ ScreeningPreference' = W.ScreeningPreference
    /\ costLog' = W.costLog
    /\ calls' = W.calls
    /\ fault' = W.fault

\* A configured probability is 0 ("never"), at least 1 ("always"), or in
\* between ("maybe").  rand() < p, with rand() in [0, 1):
Draw(p) == CASE p = "never" -> {FALSE} [] p = "always" -> {TRUE} [] OTHER -> BOOLEAN

\* the product of two configured probabilities
Times(p, r) ==
    IF p = "never" \/ r = "never" THEN "never"
    ELSE IF p = "always" /\ r = "always" THEN "always"
    ELSE "maybe"

\* entry k of a configured table; the entries the configuration leaves out are 0
RateAt(table, k) == IF k \in DOMAIN table THEN table[k] ELSE "never"


\* ------------------------------------------------------- the random draws
\* LocationMatrix[_rand_idx_1000()]: the locations the configured matrix
\* holds (1 = cecum, 13 = rectum)
LocationDraws == cfg.LocationMatrix

\* the percentile int(round(rand * 499)) + 1 of a new polyp, in the model
PercentileDraws == {1}

\* <<StageMatrix draw, SojournMatrix draw in quarters>> of a new cancer
CancerDraws == cfg.StageSojourn

\* MortalityMatrix draws: quarters until death, 25 for a survivor
MortalityDraws == cfg.MortalityMatrix

\* ColoReachMatrix draws
ReachDraws == cfg.ColoReachMatrix

\* Python's round(num / den), halves to the even neighbour (num >= 0, den > 0)
RoundHalfEven(num, den) ==
    LET k == num \div den
        r == num % den
    IN  IF 2 * r < den THEN k
        ELSE IF 2 * r > den THEN k + 1
        ELSE IF k % 2 = 0 THEN k ELSE k + 1

\* tr_cols = round(n / 10): the columns of the per-year event logs
tr_cols == RoundHalfEven(cfg.n, 10)

\* sum(StageDuration[tmp1 - 7, 0:k]) in thousandths
StageDurationCum(tmp1, k) ==
    CASE tmp1 = 8  /\ k = 1 -> 468
      [] tmp1 = 9  /\ k = 1 -> 250
      [] tmp1 = 9  /\ k = 2 -> 648
      [] tmp1 = 10 /\ k = 1 -> 162
      [] tmp1 = 10 /\ k = 2 -> 382
      [] tmp1 = 10 /\ k = 3 -> 657
      [] OTHER -> 1000

\* A transition time for every stage, those beyond the sampled symptom
\* stage at half the sojourn time.
TimeStageUncapped(t, tmp1, tmp2, k) ==
    IF tmp1 > 6 + k THEN t + RoundHalfEven(tmp2 * StageDurationCum(tmp1, k), 1000)
    ELSE t + tmp2 \div 2

\* time + round(tmp2 * sum(StageDuration[tmp1 - 7, 0:k]) * 4) / 4.0, or 1000
TimeStage(t, tmp1, tmp2, k) ==
    IF tmp1 > 6 + k THEN t + RoundHalfEven(tmp2 * StageDurationCum(tmp1, k), 1000)
    ELSE Never

\* The record written into slot l2 of the Ca_* arrays when a cancer appears
\* at time t: stage 7, the given location and dwell time, and the sampled
\* symptom time, symptom stage and stage-transition times.
NewCancer(C, l2, t, loc, dwell, d) ==
    [Cancer         |-> Put(C.Cancer, l2, 7),
     CancerYear     |-> Put(C.CancerYear, l2, t),
     CancerLocation |-> Put(C.CancerLocation, l2, loc),
     DwellTime      |-> Put(C.DwellTime, l2, dwell),
     SympTime       |-> Put(C.SympTime, l2, t + d[2]),
     SympStage      |-> Put(C.SympStage, l2, d[1]),
     TimeStage_I    |-> Put(C.TimeStage_I, l2, TimeStage(t, d[1], d[2], 1)),
     TimeStage_II   |-> Put(C.TimeStage_II, l2, TimeStage(t, d[1], d[2], 2)),
     TimeStage_III  |-> Put(C.TimeStage_III, l2, TimeStage(t, d[1], d[2], 3))]

\* --------------------------------------------------------------- AddCosts
\* Difference = Ende - Start, in quarters
Difference(Start, Ende) == Ende - Start

\* the columns a:b of a row of SubCost (a Python slice: b is excluded)
Columns(a, b) == a .. (b - 1)

\* One addition to a row of PaymentType_Cancer_ini/con/fin: the year column
\* it goes to, and the amount.  For _ini the amount is a count; for _con and
\* _fin it is a number of quarters (the code adds quarters / 4 years).
Payment(year, amount) == [year |-> year, amount |-> amount]

\* for con_y in range(1, yyears + 1):
\*     PaymentType_Cancer_con[stage_idx, floor(Start) + con_y - 1] += 1
RECURSIVE ContinuingYears(_, _, _)
ContinuingYears(Start, con_y, yyears) ==
    IF con_y > yyears THEN << >>
    ELSE <<Payment(Start \div 4 + con_y - 1, 4)>>
         \o ContinuingYears(Start, con_y + 1, yyears)

\* The initial-only allocation with the stage counted from 1, as the rows
\* of the cost tables are counted in a 1-based language.
InitialOnlyOneBased(Start, stage) ==
    [stage_idx |-> stage - 6,
     Initial |-> {Start}, Cont |-> {}, Final |-> {},
     ini |-> <<Payment(Start \div 4 - 1, 1)>>, con |-> << >>, fin |-> << >>]

\* Difference <= 1/4: the initial cost in the quarter of detection
InitialOnly(Start, stage) ==
    [stage_idx |-> stage - 7,
     Initial |-> {Start}, Cont |-> {}, Final |-> {},
     ini |-> <<Payment(Start \div 4 - 1, 1)>>, con |-> << >>, fin |-> << >>]

\* The allocation that pays the final rate whatever the patient died of.
ShortSurvivalAlwaysFinal(Start, Ende, stage, mode) ==
    LET span == Columns(Start + 1, Ende)
        nq   == Ende - (Start + 1)
        paid == <<Payment((Ende - 4) \div 4 - 1, nq)>>
    IN  [InitialOnly(Start, stage) EXCEPT !.Final = span, !.fin = paid]

\* 1/4 < Difference <= 1.25: the quarters after the first are paid at the
\* final rate (death of the tumor) or at the continuing rate (other causes)
ShortSurvival(Start, Ende, stage, mode) ==
    LET span == Columns(Start + 1, Ende)
        nq   == Ende - (Start + 1)
        paid == <<Payment((Ende - 4) \div 4 - 1, nq)>>
    IN  [InitialOnly(Start, stage) EXCEPT
           !.Final = IF mode # "oc" THEN span ELSE {},
           !.Cont  = IF mode = "oc" THEN span ELSE {},
           !.fin   = IF mode # "oc" THEN paid ELSE << >>,
           !.con   = IF mode = "oc" THEN paid ELSE << >>]

\* The allocation with the last year begun a quarter late.
MediumSurvivalLateFinal(Start, Ende, stage, mode) ==
    LET cont_end_q == Ende - 3
        yyears     == (Difference(Start, Ende) - 5) \div 4
        qquarters  == (Difference(Start, Ende) - 5) % 4
        whole      == ContinuingYears(Start, 1, yyears)
                      \o <<Payment(Start \div 4 + yyears, qquarters)>>
        last       == <<Payment(Ende \div 4 - 2, 4)>>
    IN  [InitialOnly(Start, stage) EXCEPT
           !.Cont  = Columns(Start + 1, cont_end_q)
                     \cup IF mode = "oc" THEN Columns(cont_end_q, Ende) ELSE {},
           !.Final = IF mode # "oc" THEN Columns(cont_end_q, Ende) ELSE {},
           !.con   = IF mode = "oc" THEN whole \o last ELSE whole,
           !.fin   = IF mode # "oc" THEN last ELSE << >>]

\* 1.25 < Difference <= 5: continuing costs up to a year before the end,
\* then the last year at the final rate or, for other causes, the
\* continuing rate
MediumSurvival(Start, Ende, stage, mode) ==
    LET cont_end_q == Ende - 4
        yyears     == (Difference(Start, Ende) - 5) \div 4
        qquarters  == (Difference(Start, Ende) - 5) % 4
        whole      == ContinuingYears(Start, 1, yyears)
                      \o <<Payment(Start \div 4 + yyears, qquarters)>>
        last       == <<Payment(Ende \div 4 - 2, 4)>>
    IN  [InitialOnly(Start, stage) EXCEPT
           !.Cont  = Columns(Start + 1, cont_end_q)
                     \cup IF mode = "oc" THEN Columns(cont_end_q, Ende) ELSE {},
           !.Final = IF mode # "oc" THEN Columns(cont_end_q, Ende) ELSE {},
           !.con   = IF mode = "oc" THEN whole \o last ELSE whole,
           !.fin   = IF mode # "oc" THEN last ELSE << >>]

\* Difference > 5: SubCost is written at the continuing rate in every
\* quarter after the first up to the end; PaymentType_Cancer_con counts four
\* years and 0.75 of a fifth
LongSurvival(Start, Ende, stage) ==
    [InitialOnly(Start, stage) EXCEPT
       !.Cont = Columns(Start + 1, Ende),
       !.con  = ContinuingYears(Start, 1, 4) \o <<Payment(Start \div 4 + 4, 3)>>]

\* The body of AddCosts' loop for one detected cancer: the columns of its
\* row of SubCost written at each of the three rates of the cancer's stage,
\* and the additions to the PaymentType_Cancer_* counters.  (SubCostFut and
\* the PaymentType_QCancer_* counters are written in the same branches at
\* the same places.)
CostOfRecord(Start, Ende, stage, mode) ==
    IF Difference(Start, Ende) <= 1 THEN InitialOnly(Start, stage)
    ELSE IF Difference(Start, Ende) <= 5 THEN ShortSurvival(Start, Ende, stage, mode)
    ELSE IF Difference(Start, Ende) <= 20 THEN MediumSurvival(Start, Ende, stage, mode)
    ELSE LongSurvival(Start, Ende, stage)

\* for x1 in range(l): the allocations of the patient's detected cancers
AddCosts(D, t, mode) ==
    [x1 \in 1..count_nonzero(D.Cancer) |->
        CostOfRecord(D.CancerYear[x1], t, D.Cancer[x1], mode)]

\* Money_Treatment and Money_FutureTreatment have one entry per year.
MoneyYears == 100

\* for x1 in range(100): for x2 in range(4): Money_Treatment[x1] +=
\* SubCostAll[Counter]; Counter += 1 -- the entry a column of SubCost is
\* added to
MoneyEntry(col) == col \div 4

\* The closing loop of AddCosts: for each row of SubCost, the entry of
\* Money_Treatment (and of Money_FutureTreatment) that each written column is
\* added to.  The loop ends at column 4 * 100 - 1; a column beyond is added
\* nowhere.
MoneyTreatment(costs) ==
    [x1 \in 1..Len(costs) |->
        [col \in {c \in costs[x1].Initial \cup costs[x1].Cont \cup costs[x1].Final :
                     c < 4 * MoneyYears} |-> MoneyEntry(col)]]

\* AddCosts as the engine sees it: the loop over the patient's detected
\* cancers writes row x1 of SubCost, which has SubCostRows rows; the call is
\* recorded with its terminal time, its mode and what it allocated.
AddCostsCall(W, t, zz, mode) ==
    IF count_nonzero(W.Detected[zz].Cancer) > SubCostRows
    THEN [W EXCEPT !.fault = "SubCost"]
    ELSE [W EXCEPT !.costLog[zz] =
            Append(@, [time |-> t, mode |-> mode,
                       cost |-> AddCosts(W.Detected[zz], t, mode),
                       money |-> MoneyTreatment(AddCosts(W.Detected[zz], t, mode))])]


\* ------------------------------------------------------------ Colonoscopy
\* The reach read the other way round: the slots 0 .. CurrentReach-1 set.
InReachFromCecum(CurrentReach, loc) ==
    IF loc = 0 THEN CurrentReach >= 13 ELSE loc <= CurrentReach

\* CurrentReachMatrix[int(loc) - 1] == 1, where CurrentReachMatrix is 1 on the
\* 0-based slots CurrentReach-1 .. 12; a location 0 reads slot -1, the last one
InReach(CurrentReach, loc) ==
    IF loc = 0 THEN CurrentReach <= 13 ELSE loc >= CurrentReach

\* The loop over the patient's polyps, slots f down to 0: a detected polyp
\* within reach is deleted; acc carries the polyp arrays, the Last_* fields
\* and the counter.
RECURSIVE ColoPolypLoop(_, _, _, _)
ColoPolypLoop(acc, f, yy, d) ==
    IF f < 0 THEN acc
    ELSE
      LET Tumor == acc.P.Polyps[f + 1]
          p_loc == acc.P.PolypLocation[f + 1]
          l     == count_nonzero(acc.P.Polyps)
      IN  IF d.pdet[f] /\ InReach(d.reach, p_loc)
          THEN ColoPolypLoop(
                 [P       |-> shift_left_polyp(acc.P, f, l - 1),
                  counter |-> acc.counter + 1,
                  L       |-> IF Tumor > 4 THEN [acc.L EXCEPT !.AdvPolyp = yy]
                              ELSE [acc.L EXCEPT !.Polyp = yy]],
                 f - 1, yy, d)
          ELSE ColoPolypLoop(acc, f - 1, yy, d)

\* One detected cancer: the record appended to the Detected_* arrays at pos.
DetectCancer(D, pos, Tumor, t, ca_loc, mortTime) ==
    [Cancer         |-> Put(D.Cancer, pos, Tumor),
     CancerYear     |-> Put(D.CancerYear, pos, t),
     CancerLocation |-> Put(D.CancerLocation, pos, ca_loc),
     MortTime       |-> Put(D.MortTime, pos, mortTime)]

\* The pass that converts the cancer and forgets to note its stage.
DetectSlotUnnoted(acc, f, yy, qq, d) ==
    LET Tumor  == acc.C.Cancer[f + 1]
        ca_loc == acc.C.CancerLocation[f + 1]
        pos    == count_nonzero(acc.D.Cancer)
        l      == count_nonzero(acc.C.Cancer)
    IN  IF ~(d.cdet[f] /\ InReach(d.reach, ca_loc)) THEN acc
        ELSE IF pos >= DetCap THEN [acc EXCEPT !.fault = "Detected_Cancer"]
        ELSE [acc EXCEPT
                !.counter = IF @ = 0 THEN 0 - 1 ELSE @,
                !.D = DetectCancer(acc.D, pos, Tumor, 4 * yy + (qq - 1), ca_loc, d.mort[f]),
                !.C = shift_left_cancer(acc.C, f, l - 1),
                !.L = [acc.L EXCEPT !.Cancer = yy]]

\* The pass in which a detected cancer marks the visit whatever was removed
\* before it.
DetectSlotCancerFirst(acc, f, yy, qq, d) ==
    LET Tumor  == acc.C.Cancer[f + 1]
        ca_loc == acc.C.CancerLocation[f + 1]
        pos    == count_nonzero(acc.D.Cancer)
        l      == count_nonzero(acc.C.Cancer)
    IN  IF ~(d.cdet[f] /\ InReach(d.reach, ca_loc)) THEN acc
        ELSE IF pos >= DetCap THEN [acc EXCEPT !.fault = "Detected_Cancer"]
        ELSE [acc EXCEPT
                !.counter = 0 - 1,
                !.D = DetectCancer(acc.D, pos, Tumor, 4 * yy + (qq - 1), ca_loc, d.mort[f]),
                !.StageTmp = Tumor,
                !.LocationTmp = ca_loc,
                !.C = shift_left_cancer(acc.C, f, l - 1),
                !.L = [acc.L EXCEPT !.Cancer = yy]]

\* One pass of the loop over the undetected cancers: the cancer in slot f,
\* if detected and within reach, becomes a detected-cancer record at
\* pos = count_nonzero(Detected_Cancer[z, :]) and is deleted from the Ca_*
\* arrays.  Detected_Cancer[z, pos] with pos beyond the last column is the fault.
DetectSlot(acc, f, yy, qq, d) ==
    LET Tumor  == acc.C.Cancer[f + 1]
        ca_loc == acc.C.CancerLocation[f + 1]
        pos    == count_nonzero(acc.D.Cancer)
        l      == count_nonzero(acc.C.Cancer)
    IN  IF ~(d.cdet[f] /\ InReach(d.reach, ca_loc)) THEN acc
        ELSE IF pos >= DetCap THEN [acc EXCEPT !.fault = "Detected_Cancer"]
        ELSE [acc EXCEPT
                !.counter = IF @ = 0 THEN 0 - 1 ELSE @,
                !.D = DetectCancer(acc.D, pos, Tumor, 4 * yy + (qq - 1), ca_loc, d.mort[f]),
                !.StageTmp = Tumor,
                !.LocationTmp = ca_loc,
                !.C = shift_left_cancer(acc.C, f, l - 1),
                !.L = [acc.L EXCEPT !.Cancer = yy]]

\* The record of the first cancer found kept, whatever is found after it.
KeepFirstFound(acc) ==
    IF acc.fault = "none" /\ acc.StageTmp # 0 /\ acc.EStage = 0
    THEN [acc EXCEPT !.EStage = acc.StageTmp, !.ELocation = acc.LocationTmp]
    ELSE acc

\* if StageTmp != 0: if StageTmp > EStage: EStage = StageTmp ...
KeepMostAdvanced(acc) ==
    IF acc.fault = "none" /\ acc.StageTmp # 0 /\ acc.StageTmp > acc.EStage
    THEN [acc EXCEPT !.EStage = acc.StageTmp, !.ELocation = acc.LocationTmp]
    ELSE acc

\* The loop over the patient's undetected cancers, slots f down to 0.  acc
\* carries the Ca_* and Detected_* arrays, the Last_* fields, counter, the
\* number of polyps the polyp loop removed, StageTmp/LocationTmp,
\* EStage/ELocation and the fault.
RECURSIVE ColoCancerLoop(_, _, _, _, _)
ColoCancerLoop(acc, f, yy, qq, d) ==
    IF f < 0 \/ acc.fault # "none" THEN acc
    ELSE ColoCancerLoop(KeepMostAdvanced(DetectSlot(acc, f, yy, qq, d)), f - 1, yy, qq, d)

\* m: the row of the payment counters for the indication
ModusRow(Modus) ==
    CASE Modus = "Scre" -> 1 [] Modus = "Symp" -> 2 [] Modus = "Foll" -> 3
      [] Modus = "Base" -> 4 [] OTHER -> 0

\* The complication the visit's draws resolve to, among those the
\* configured risks allow.
ComplicationDraws == {"none"} \cup cfg.Complications

\* The draws of one colonoscopy of patient zz in world W: the reach, one
\* detection draw per listed polyp and per listed cancer, one mortality
\* draw per detected cancer, and the complication.
ColonoscopyDraws(W, zz) ==
    LET polyps  == 0 .. (count_nonzero(W.Polyp[zz].Polyps) - 1)
        cancers == 0 .. (count_nonzero(W.Ca[zz].Cancer) - 1)
        unused  == CHOOSE m \in MortalityDraws : TRUE
    IN  {d \in [reach : ReachDraws,
                pdet  : [polyps -> Draw(cfg.Colo_Detection)],
                cdet  : [cancers -> Draw(cfg.Colo_Detection)],
                mort  : [cancers -> MortalityDraws],
                compl : ComplicationDraws] :
            \A f \in cancers : ~d.cdet[f] => d.mort[f] = unused}

\* the billing tier the counter selects
BillingTier(counter) ==
    IF counter = 0 THEN "Colonoscopy"
    ELSE IF counter = 0 - 1 THEN "Colonoscopy_Cancer"
    ELSE "Colonoscopy_Polyp"

\* The complications: a death by perforation finalises the cancer costs,
\* a death by bleeding does not.
Complication(W, zz, yy, qq, compl) ==
    IF compl \notin {"PerforationDeath", "BleedingTransfDeath"} THEN W
    ELSE IF compl = "PerforationDeath"
    THEN AddCostsCall([W EXCEPT !.Included[zz] = FALSE, !.DeathCause[zz] = 3,
                                !.DeathYear[zz] = 4 * yy],
                      4 * yy + (qq - 1), zz, "oc")
    ELSE [W EXCEPT !.Included[zz] = FALSE, !.DeathCause[zz] = 3, !.DeathYear[zz] = 4 * yy]

\* the results of the loops, written back
WithLoops(W, zz, P, a2) ==
    [W EXCEPT !.Polyp[zz] = P, !.Ca[zz] = a2.C, !.Detected[zz] = a2.D, !.Last[zz] = a2.L]

\* The visit after the two loops: the tumor record of the most advanced
\* cancer found, Last_Colonoscopy, the billing and the complications.  W0 is
\* the world on entry, P the polyp arrays after the polyp loop, a2 what the
\* cancer loop left.
AfterLoops(W0, zz, yy, qq, Modus, d, P, a2) ==
    IF a2.fault # "none" THEN [WithLoops(W0, zz, P, a2) EXCEPT !.fault = a2.fault]
    ELSE IF a2.StageTmp # 0 /\ Len(W0.TumorRecord) >= tr_cols
    THEN [WithLoops(W0, zz, P, a2) EXCEPT !.fault = "TumorRecord"]
    ELSE Complication(
           [WithLoops(W0, zz, P, a2) EXCEPT
                     !.TumorRecord =
                        IF a2.StageTmp # 0
                        THEN Append(@, [Stage |-> a2.EStage, Location |-> a2.ELocation,
                                        Detection |-> ModusRow(Modus),
                                        PatientNumber |-> zz + 1])
                        ELSE @,
                     !.Last[zz].Colonoscopy = yy,
                     !.calls = Append(@, [proc |-> "Colonoscopy", z |-> zz,
                                          Modus |-> Modus, Included |-> W0.Included[zz],
                                          reach |-> d.reach,
                                          polyps |-> a2.polyps,
                                          cancers |-> count_nonzero(a2.D.Cancer)
                                                      - count_nonzero(W0.Detected[zz].Cancer),
                                          tier |-> BillingTier(a2.counter),
                                          complication |-> d.compl])],
           zz, yy, qq, d.compl)

\* The visit after the polyp loop, whose results are a1: three polyps count
\* as an advanced polyp; then the cancer loop and the rest.
AfterPolyps(W, zz, yy, qq, Modus, d, a1) ==
    AfterLoops(W, zz, yy, qq, Modus, d, a1.P,
               ColoCancerLoop([C |-> W.Ca[zz], D |-> W.Detected[zz],
                               L |-> IF a1.counter > 2 THEN [a1.L EXCEPT !.AdvPolyp = yy]
                                     ELSE a1.L,
                               counter |-> a1.counter, polyps |-> a1.counter,
                               StageTmp |-> 0, LocationTmp |-> 0,
                               EStage |-> 0, ELocation |-> 0, fault |-> "none"],
                              count_nonzero(W.Ca[zz].Cancer) - 1, yy, qq, d))

\* Colonoscopy(z, y, q, Modus, ...) for patient zz, as a function from the
\* world before the visit to the world after it.
Colonoscopy(W, zz, yy, qq, Modus, d) ==
    IF W.fault # "none" THEN W
    ELSE AfterPolyps(W, zz, yy, qq, Modus, d,
                     ColoPolypLoop([P |-> W.Polyp[zz], L |-> W.Last[zz], counter |-> 0],
                                   count_nonzero(W.Polyp[zz].Polyps) - 1, yy, d))

\* every world a colonoscopy of patient zz can leave behind
ColonoscopyOutcomes(W, zz, yy, qq, Modus) ==
    {Colonoscopy(W, zz, yy, qq, Modus, d) : d \in ColonoscopyDraws(W, zz)}


\* ------------------------------------------------------------- RectoSigmo
\* RectoPolypLoop, but under Atkin every detected polyp is removed
RECURSIVE RectoPolypLoopRemovesAll(_, _, _)
RectoPolypLoopRemovesAll(acc, f, d) ==
    IF f < 0 THEN acc
    ELSE
      LET Tumor == acc.P.Polyps[f + 1]
          p_loc == acc.P.PolypLocation[f + 1]
          l     == count_nonzero(acc.P.Polyps)
          seen  == [acc EXCEPT !.counter = @ + 1, !.PolypMax = Max2(@, Tumor)]
          acc1  ==
            IF ~(d.pdet[f] /\ InReach(d.reach, p_loc)) THEN acc
            ELSE IF flag("Schoen")
            THEN [seen EXCEPT !.PolypFlag = IF Tumor > 2 \/ acc.PolypFlag = 3 THEN 3 ELSE 2]
            ELSE IF flag("Atkin")
            THEN [seen EXCEPT !.PolypFlag = IF Tumor > 2 THEN 2 ELSE @,
                              !.P = shift_left_polyp(acc.P, f, l - 1)]
            ELSE IF flag("Segnan")
            THEN IF Tumor > 2
                 THEN [seen EXCEPT !.PolypFlag = 2]
                 ELSE [acc EXCEPT !.P = shift_left_polyp(acc.P, f, l - 1)]
            ELSE [seen EXCEPT !.PolypFlag = 2]
      IN  RectoPolypLoopRemovesAll(acc1, f - 1, d)

\* The loop over the listed polyps, slots f down to 0, in the variant the
\* study flags select.  PolypFlag is kept in halves: 2 is the code's 1 and 3
\* its 1.5.
RECURSIVE RectoPolypLoop(_, _, _)
RectoPolypLoop(acc, f, d) ==
    IF f < 0 THEN acc
    ELSE
      LET Tumor == acc.P.Polyps[f + 1]
          p_loc == acc.P.PolypLocation[f + 1]
          l     == count_nonzero(acc.P.Polyps)
          seen  == [acc EXCEPT !.counter = @ + 1, !.PolypMax = Max2(@, Tumor)]
          acc1  ==
            IF ~(d.pdet[f] /\ InReach(d.reach, p_loc)) THEN acc
            ELSE IF flag("Schoen")
            THEN [seen EXCEPT !.PolypFlag = IF Tumor > 2 \/ acc.PolypFlag = 3 THEN 3 ELSE 2]
            ELSE IF flag("Atkin")
            THEN IF Tumor > 2
                 THEN [seen EXCEPT !.PolypFlag = 2, !.P = shift_left_polyp(acc.P, f, l - 1)]
                 ELSE seen
            ELSE IF flag("Segnan")
            THEN IF Tumor > 2
                 THEN [seen EXCEPT !.PolypFlag = 2]
                 ELSE [acc EXCEPT !.P = shift_left_polyp(acc.P, f, l - 1)]
            ELSE [seen EXCEPT !.PolypFlag = 2]
      IN  RectoPolypLoop(acc1, f - 1, d)

\* The draws of one rectosigmoidoscopy of patient zz in world W.
RectoSigmoDraws(W, zz) ==
    [reach : cfg.RectoSigmoReachMatrix,
     pdet  : [0 .. (count_nonzero(W.Polyp[zz].Polyps) - 1) -> Draw(cfg.RectoSigmo_Detection)],
     cdet  : [0 .. (count_nonzero(W.Ca[zz].Cancer) - 1) -> Draw(cfg.RectoSigmo_Detection)],
     compl : {"none"} \cup cfg.RectoComplications]

\* the cancers the examination sees: they only raise CancerFlag
CancersSeen(C, d) ==
    {f \in 0 .. (count_nonzero(C.Cancer) - 1) :
        d.cdet[f] /\ InReach(d.reach, C.CancerLocation[f + 1])}

\* RectoAfterPolyps, but the cancers the examination sees are taken out
RectoAfterPolypsTakingCancers(W, zz, yy, d, a1, found) ==
    [W |-> [W EXCEPT
              !.Polyp[zz] = a1.P,
              !.Ca[zz] = IF found = {} THEN @ ELSE EmptyCa,
              !.calls = Append(@, [proc |-> "RectoSigmo", z |-> zz,
                                   Modus |-> "Scre", Included |-> W.Included[zz],
                                   reach |-> d.reach, pdet |-> d.pdet, cdet |-> d.cdet,
                                   PolypFlag |-> a1.PolypFlag,
                                   tier |-> IF a1.counter + Cardinality(found) = 0
                                            THEN "Sigmoidoscopy"
                                            ELSE "Sigmoidoscopy_Polyp",
                                   complication |-> d.compl]),
              !.Included[zz] = IF d.compl = "PerforationDeath" THEN FALSE ELSE @,
              !.DeathCause[zz] = IF d.compl = "PerforationDeath" THEN 3 ELSE @,
              !.DeathYear[zz] = IF d.compl = "PerforationDeath" THEN 4 * yy ELSE @],
     PolypFlag    |-> IF d.compl = "PerforationDeath" THEN 0 ELSE a1.PolypFlag,
     AdvPolypFlag |-> IF a1.PolypMax > 4 \/ a1.counter > 2 THEN 1 ELSE 0,
     CancerFlag   |-> IF d.compl = "PerforationDeath" \/ found = {} THEN 0 ELSE 1]

\* The examination after the polyp loop, whose results are a1: the flags,
\* the billing and the perforation.
RectoAfterPolyps(W, zz, yy, d, a1, found) ==
    [W |-> [W EXCEPT
              !.Polyp[zz] = a1.P,
              !.calls = Append(@, [proc |-> "RectoSigmo", z |-> zz,
                                   Modus |-> "Scre", Included |-> W.Included[zz],
                                   reach |-> d.reach, pdet |-> d.pdet, cdet |-> d.cdet,
                                   PolypFlag |-> a1.PolypFlag,
                                   tier |-> IF a1.counter + Cardinality(found) = 0
                                            THEN "Sigmoidoscopy"
                                            ELSE "Sigmoidoscopy_Polyp",
                                   complication |-> d.compl]),
              !.Included[zz] = IF d.compl = "PerforationDeath" THEN FALSE ELSE @,
              !.DeathCause[zz] = IF d.compl = "PerforationDeath" THEN 3 ELSE @,
              !.DeathYear[zz] = IF d.compl = "PerforationDeath" THEN 4 * yy ELSE @],
     PolypFlag    |-> IF d.compl = "PerforationDeath" THEN 0 ELSE a1.PolypFlag,
     AdvPolypFlag |-> IF a1.PolypMax > 4 \/ a1.counter > 2 THEN 1 ELSE 0,
     CancerFlag   |-> IF d.compl = "PerforationDeath" \/ found = {} THEN 0 ELSE 1]

\* RectoSigmo(z, y, ...): the world after the examination and the three
\* flags it returns.
RectoSigmo(W, zz, yy, d) ==
    RectoAfterPolyps(W, zz, yy, d,
                     RectoPolypLoop([P |-> W.Polyp[zz], counter |-> 0, PolypFlag |-> 0,
                                     PolypMax |-> 0],
                                    count_nonzero(W.Polyp[zz].Polyps) - 1, d),
                     CancersSeen(W.Ca[zz], d))


\* ------------------------------------------------- the natural-history engine

\* Patients below cfg.active are Gender 1 with the configured rates; the
\* others are Gender 2 with IndividualRisk, LifeTable and DirectCancerRate
\* zero and ScreeningPreference 0.
Active(zz) == zz < cfg.active

\* a rate of the cohort as it applies to patient zz
AtRisk(zz, p) == IF Active(zz) THEN p ELSE "never"

\* tmp = AgeProgression[polyp_stage - 1, yi] * LocationProgression[...] *
\* GenderProgression[...] * risk_mult.  The tables have 6 rows, so stage 0
\* reads row -1, the last one.
ProgressionRate(polyp_stage) ==
    IF polyp_stage = 0 THEN cfg.Progression[6] ELSE RateAt(cfg.Progression, polyp_stage)

\* StageVariables['FastCancer'][polyp_stage - 1] * AgeProgression[5, yi] * ...:
\* entries 5..9 of FastCancer are set to zero by calculate_sub, and stage 0
\* reads entry -1
FastCancerRate(polyp_stage) ==
    Times(RateAt(cfg.FastCancer, polyp_stage), cfg.Progression[6])

\* StageVariables['Healing'][polyp_stage - 1]: the configurations of the
\* model have no healing of cancer stages, the entry stage 0 reads
HealingRate(polyp_stage) == RateAt(cfg.Healing, polyp_stage)

\* goes on to the next position unless the step ended in a fault
Goto(W, next) ==
    /\ SetWorld(W)
    /\ pc' = IF W.fault # "none" THEN "aborted" ELSE next

Frame == UNCHANGED <<cfg, y, z, q, YearIncluded, Prevalence>>

\* the rows of the prevalence arrays of a year, as np.zeros leaves them
NoPrevalence ==
    [NumPolyps |-> [zz \in Patients |-> 0], MaxPolyps |-> [zz \in Patients |-> 0],
     NumCancer |-> [zz \in Patients |-> 0], MaxCancer |-> [zz \in Patients |-> 0]]

\* summarizing polyps: MaxPolyps[yi, z] and NumPolyps[yi, z], written if
\* the patient has a polyp
SummarizePolyps(R, zz, P) ==
    IF find_last_nonzero(P.Polyps) >= 0
    THEN [R EXCEPT !.MaxPolyps[zz] = ArrayMax(P.Polyps),
                   !.NumPolyps[zz] = count_nonzero(P.Polyps)]
    ELSE R

\* summarizing cancer: MaxCancer[yi, z] and NumCancer[yi, z], written if
\* the patient has an undetected cancer
SummarizeCancer(R, zz, C) ==
    IF find_last_nonzero(C.Cancer) >= 0
    THEN [R EXCEPT !.MaxCancer[zz] = ArrayMax(C.Cancer),
                   !.NumCancer[zz] = count_nonzero(C.Cancer)]
    ELSE R

\* The death records written for every natural death, the patient's
\* earlier exclusion notwithstanding.
NaturalDeathRecordedAnew ==
    /\ pc = "NaturalDeath"
    /\ Active(z) \/ flag("SpecialFlag")
    /\ \E d \in IF Alive[z] THEN Draw(AtRisk(z, RateAt(cfg.LifeTable, y))) ELSE {FALSE} :
         IF d
         THEN /\ Alive' = [Alive EXCEPT ![z] = FALSE]
              /\ NaturalDeathYear' = [NaturalDeathYear EXCEPT ![z] = time]
              /\ LET W1 == [World EXCEPT !.Included[z] = FALSE, !.DeathCause[z] = 1,
                                         !.DeathYear[z] = time]
                 IN  Goto(IF Included[z] /\ SumPositive(Detected[z].Cancer)
                          THEN AddCostsCall(W1, time, z, "oc") ELSE W1,
                          "CancerDeath")
         ELSE /\ UNCHANGED <<Alive, NaturalDeathYear>>
              /\ Goto(World, "CancerDeath")
    /\ Frame

\* people die of natural causes
NaturalDeath ==
    /\ pc = "NaturalDeath"
    /\ Active(z) \/ flag("SpecialFlag")
    /\ \E d \in IF Alive[z] THEN Draw(AtRisk(z, RateAt(cfg.LifeTable, y))) ELSE {FALSE} :
         IF d
         THEN /\ Alive' = [Alive EXCEPT ![z] = FALSE]
              /\ NaturalDeathYear' = [NaturalDeathYear EXCEPT ![z] = time]
              /\ IF Included[z]
                 THEN LET W1 == [World EXCEPT !.Included[z] = FALSE, !.DeathCause[z] = 1,
                                              !.DeathYear[z] = time]
                      IN  Goto(IF SumPositive(Detected[z].Cancer)
                               THEN AddCostsCall(W1, time, z, "oc") ELSE W1,
                               "CancerDeath")
                 ELSE Goto(World, "CancerDeath")
         ELSE /\ UNCHANGED <<Alive, NaturalDeathYear>>
              /\ Goto(World, "CancerDeath")
    /\ Frame

\* The test with the quarter of the countdown's end still survived.
FirstFatalLate(D, t) ==
    LET l == count_nonzero(D.Cancer)
        fatal == {f \in 0..(l - 1) : D.MortTime[f + 1] < 21
                                     /\ t - D.CancerYear[f + 1] > D.MortTime[f + 1]}
    IN  IF fatal = {} THEN 0 - 1 ELSE CHOOSE f \in fatal : \A g \in fatal : f <= g

\* The first detected cancer, in slot order, whose mortality time has run
\* out; -1 if there is none.
FirstFatal(D, t) ==
    LET l == count_nonzero(D.Cancer)
        fatal == {f \in 0..(l - 1) : D.MortTime[f + 1] < 21
                                     /\ t - D.CancerYear[f + 1] >= D.MortTime[f + 1]}
    IN  IF fatal = {} THEN 0 - 1 ELSE CHOOSE f \in fatal : \A g \in fatal : f <= g

\* The check run on the undetected cancers as well: a patient carrying
\* any cancer dies of it.
CancerDeathOfUndetected ==
    /\ pc = "CancerDeath"
    /\ IF Included[z] /\ (FirstFatal(Detected[z], time) >= 0 \/ SumPositive(Ca[z].Cancer))
       THEN Goto(AddCostsCall([World EXCEPT !.Included[z] = FALSE, !.DeathCause[z] = 2,
                                            !.DeathYear[z] = time],
                              time, z, "tu"),
                 "EndQuarter")
       ELSE Goto(World, IF Included[z] THEN "NewPolyp" ELSE "EndQuarter")
    /\ UNCHANGED <<Alive, NaturalDeathYear>>
    /\ Frame

\* people die of cancer
CancerDeath ==
    /\ pc = "CancerDeath"
    /\ IF Included[z] /\ FirstFatal(Detected[z], time) >= 0
       THEN Goto(AddCostsCall([World EXCEPT !.Included[z] = FALSE, !.DeathCause[z] = 2,
                                            !.DeathYear[z] = time],
                              time, z, "tu"),
                 "EndQuarter")
       ELSE Goto(World, IF Included[z] THEN "NewPolyp" ELSE "EndQuarter")
    /\ UNCHANGED <<Alive, NaturalDeathYear>>
    /\ Frame

\* The slot a new polyp is written to.
NewPolypPos(P) == IF P.Polyps[1] > 0 THEN find_last_nonzero(P.Polyps) + 1 ELSE 0

\* the capacity test off by one: pos <= 50
AddPolypOffByOne(P, t, loc, early, adv) ==
    LET pos == NewPolypPos(P)
    IN  IF pos <= PolypCap
        THEN [Polyps           |-> Put(P.Polyps, pos, 1),
              PolypYear        |-> Put(P.PolypYear, pos, t),
              PolypLocation    |-> Put(P.PolypLocation, pos, loc),
              EarlyProgression |-> Put(P.EarlyProgression, pos, early),
              AdvProgression   |-> Put(P.AdvProgression, pos, adv)]
        ELSE P

\* a new polyp appears
AddPolyp(P, t, loc, early, adv) ==
    LET pos == NewPolypPos(P)
    IN  IF pos < PolypCap
        THEN [Polyps           |-> Put(P.Polyps, pos, 1),
              PolypYear        |-> Put(P.PolypYear, pos, t),
              PolypLocation    |-> Put(P.PolypLocation, pos, loc),
              EarlyProgression |-> Put(P.EarlyProgression, pos, early),
              AdvProgression   |-> Put(P.AdvProgression, pos, adv)]
        ELSE P

NewPolyp ==
    /\ pc = "NewPolyp"
    /\ \E d \in Draw(AtRisk(z, RateAt(cfg.NewPolyp, y))) :
         IF d
         THEN \E loc \in LocationDraws, early \in PercentileDraws, adv \in PercentileDraws :
                Goto([World EXCEPT !.Polyp[z] =
                         AddPolyp(@, time, loc, early,
                                  IF flag("Correlation") THEN early ELSE adv)],
                     "DirectCancer")
         ELSE Goto(World, "DirectCancer")
    /\ UNCHANGED <<Alive, NaturalDeathYear>>
    /\ Frame

\* a new cancer appears directly
AddDirectCancer(W, zz, t, loc, d) ==
    LET l2 == count_nonzero(W.Ca[zz].Cancer)
    IN  IF l2 < CaCap
        THEN [W EXCEPT !.Ca[zz] = NewCancer(@, l2, t, loc, 0, d),
                       !.fault = IF W.DwellTimeProgression >= tr_cols
                                 THEN "DwellTimeProgression" ELSE "none"]
        ELSE W

DirectCancer ==
    /\ pc = "DirectCancer"
    /\ \E d \in Draw(AtRisk(z, RateAt(cfg.DirectCancerRate, y))) :
         IF d
         THEN \E loc \in LocationDraws, ca \in CancerDraws :
                Goto(AddDirectCancer(World, z, time, loc, ca), "Progress")
         ELSE Goto(World, "Progress")
    /\ UNCHANGED <<Alive, NaturalDeathYear>>
    /\ Frame


\* PolypToCancer, but a fast-tracked polyp is counted in ProgressedCancer too
PolypToCancerCountedTwice(W, zz, f, t, d, dwellLog) ==
    LET P     == W.Polyp[zz]
        l2    == count_nonzero(W.Ca[zz].Cancer)
        dwell == t - P.PolypYear[f + 1]
        used  == IF dwellLog = "DwellTimeProgression" THEN W.DwellTimeProgression
                 ELSE W.DwellTimeFastCancer
        add   == IF dwell # 0 THEN 1 ELSE 0
        l_now == count_nonzero(P.Polyps)
        \* DirectCancer[polyp_stage - 1, yi]: index -1 is the last of the five rows
        row   == IF P.Polyps[f + 1] = 0 THEN 5 ELSE P.Polyps[f + 1]
    IN  IF l2 >= CaCap THEN [W EXCEPT !.fault = "Ca_Cancer"]
        ELSE IF used >= tr_cols
        THEN [W EXCEPT !.Ca[zz] = NewCancer(@, l2, t, P.PolypLocation[f + 1], dwell, d),
                       !.fault = dwellLog]
        ELSE IF dwellLog = "DwellTimeProgression"
        THEN [W EXCEPT !.Ca[zz] = NewCancer(@, l2, t, P.PolypLocation[f + 1], dwell, d),
                       !.DwellTimeProgression = @ + add,
                       !.ProgressedCancer = @ + 1,
                       !.Polyp[zz] = shift_left_polyp(P, f, l_now - 1)]
        ELSE IF row > 5
        THEN [W EXCEPT !.Ca[zz] = NewCancer(@, l2, t, P.PolypLocation[f + 1], dwell, d),
                       !.DwellTimeFastCancer = @ + add,
                       !.fault = "DirectCancer"]
        ELSE [W EXCEPT !.Ca[zz] = NewCancer(@, l2, t, P.PolypLocation[f + 1], dwell, d),
                       !.DwellTimeFastCancer = @ + add,
                       !.DirectCancer[row] = @ + 1,
                       !.ProgressedCancer = @ + 1,
                       !.Polyp[zz] = shift_left_polyp(P, f, l_now - 1)]

\* A polyp in slot f turns into a cancer at time t: the cancer record is
\* written to slot l2 of the Ca_* arrays, the dwell time is logged in the
\* year's row of dwellLog, and the polyp is deleted.
PolypToCancer(W, zz, f, t, d, dwellLog) ==
    LET P     == W.Polyp[zz]
        l2    == count_nonzero(W.Ca[zz].Cancer)
        dwell == t - P.PolypYear[f + 1]
        used  == IF dwellLog = "DwellTimeProgression" THEN W.DwellTimeProgression
                 ELSE W.DwellTimeFastCancer
        add   == IF dwell # 0 THEN 1 ELSE 0
        l_now == count_nonzero(P.Polyps)
        \* DirectCancer[polyp_stage - 1, yi]: index -1 is the last of the five rows
        row   == IF P.Polyps[f + 1] = 0 THEN 5 ELSE P.Polyps[f + 1]
    IN  IF l2 >= CaCap THEN [W EXCEPT !.fault = "Ca_Cancer"]
        ELSE IF used >= tr_cols
        THEN [W EXCEPT !.Ca[zz] = NewCancer(@, l2, t, P.PolypLocation[f + 1], dwell, d),
                       !.fault = dwellLog]
        ELSE IF dwellLog = "DwellTimeProgression"
        THEN [W EXCEPT !.Ca[zz] = NewCancer(@, l2, t, P.PolypLocation[f + 1], dwell, d),
                       !.DwellTimeProgression = @ + add,
                       !.ProgressedCancer = @ + 1,
                       !.Polyp[zz] = shift_left_polyp(P, f, l_now - 1)]
        ELSE IF row > 5
        THEN [W EXCEPT !.Ca[zz] = NewCancer(@, l2, t, P.PolypLocation[f + 1], dwell, d),
                       !.DwellTimeFastCancer = @ + add,
                       !.fault = "DirectCancer"]
        ELSE [W EXCEPT !.Ca[zz] = NewCancer(@, l2, t, P.PolypLocation[f + 1], dwell, d),
                       !.DwellTimeFastCancer = @ + add,
                       !.DirectCancer[row] = @ + 1,
                       !.Polyp[zz] = shift_left_polyp(P, f, l_now - 1)]

\* a polyp progresses: the loop over slots f down to 0.  pr[f] is what the
\* draws of slot f resolve to: [act |-> "none" | "prog" | "fast", ca |-> the
\* draws of the new cancer].
RECURSIVE ProgressLoop(_, _, _, _, _)
ProgressLoop(W, zz, f, t, pr) ==
    IF f < 0 \/ W.fault # "none" THEN W
    ELSE
      LET polyp_stage == W.Polyp[zz].Polyps[f + 1]
          W1 == IF pr[f].act = "prog"
                THEN LET Wp == [W EXCEPT !.Polyp[zz].Polyps = Put(@, f, polyp_stage + 1)]
                     IN  IF polyp_stage + 1 > 6
                         THEN PolypToCancer(Wp, zz, f, t, pr[f].ca, "DwellTimeProgression")
                         ELSE Wp
                ELSE IF pr[f].act = "fast"
                THEN PolypToCancer(W, zz, f, t, pr[f].ca, "DwellTimeFastCancer")
                ELSE W
      IN  ProgressLoop(W1, zz, f - 1, t, pr)

\* What the two draws of a polyp of the given stage can resolve to: it
\* progresses, or else it turns into a cancer directly, or neither.
ActDraws(polyp_stage) ==
    {IF p THEN "prog" ELSE IF c THEN "fast" ELSE "none" :
        p \in Draw(ProgressionRate(polyp_stage)), c \in Draw(FastCancerRate(polyp_stage))}

\* ... together with the stage and sojourn draws of the cancer, if one appears
PolypDraws(polyp_stage) ==
    UNION {IF a = "fast" \/ (a = "prog" /\ polyp_stage >= 6)
           THEN {[act |-> a, ca |-> c] : c \in CancerDraws}
           ELSE {[act |-> a, ca |-> <<0, 0>>]} : a \in ActDraws(polyp_stage)}

\* The draws of one pass over the listed polyps.  Slot f still holds what it
\* held on entry when the loop reaches it: a deletion moves higher slots only.
ProgressDraws(P) ==
    LET slots == 0 .. (count_nonzero(P.Polyps) - 1)
    IN  {pr \in [slots -> UNION {PolypDraws(P.Polyps[f + 1]) : f \in slots}] :
            \A f \in slots : pr[f] \in PolypDraws(P.Polyps[f + 1])}

Progress ==
    /\ pc = "Progress"
    /\ \E pr \in ProgressDraws(Polyp[z]) :
         Goto(ProgressLoop(World, z, count_nonzero(Polyp[z].Polyps) - 1, time, pr), "Regress")
    /\ UNCHANGED <<Alive, NaturalDeathYear>>
    /\ Frame

\* A polyp in slot f has shrunk to stage 0 and disappears.
RemoveHealed(P, f) ==
    LET l_now == count_nonzero(P.Polyps)
    IN  shift_left_polyp(P, f, l_now - 1)

\* The loop with a healed polyp shrinking by two stages.
RECURSIVE RegressLoopByTwo(_, _, _)
RegressLoopByTwo(P, f, heal) ==
    IF f < 0 THEN P
    ELSE
      LET polyp_stage == P.Polyps[f + 1]
          P1 == IF heal[f]
                THEN LET Ph == [P EXCEPT !.Polyps = Put(@, f, Max2(polyp_stage - 2, 0))]
                     IN  IF Ph.Polyps[f + 1] = 0 THEN RemoveHealed(Ph, f) ELSE Ph
                ELSE P
      IN  RegressLoopByTwo(P1, f - 1, heal)

\* a polyp shrinks or disappears: the loop over slots f down to 0
RECURSIVE RegressLoop(_, _, _)
RegressLoop(P, f, heal) ==
    IF f < 0 THEN P
    ELSE
      LET polyp_stage == P.Polyps[f + 1]
          P1 == IF heal[f]
                THEN LET Ph == [P EXCEPT !.Polyps = Put(@, f, polyp_stage - 1)]
                     IN  IF polyp_stage - 1 = 0 THEN RemoveHealed(Ph, f) ELSE Ph
                ELSE P
      IN  RegressLoop(P1, f - 1, heal)

HealDraws(P) ==
    LET slots == 0 .. (count_nonzero(P.Polyps) - 1)
    IN  {heal \in [slots -> BOOLEAN] :
            \A f \in slots : heal[f] \in Draw(HealingRate(P.Polyps[f + 1]))}

Regress ==
    /\ pc = "Regress"
    /\ \E heal \in HealDraws(Polyp[z]) :
         Goto([World EXCEPT !.Polyp[z] =
                   RegressLoop(@, count_nonzero(Polyp[z].Polyps) - 1, heal)],
              "Symptom")
    /\ UNCHANGED <<Alive, NaturalDeathYear>>
    /\ Frame

\* symptom development: one colonoscopy if any undetected cancer among the
\* first l_ca slots has reached its symptom time
\* Symptomatic, but only from the quarter after the symptom time
SymptomaticLate(C, t) ==
    \E f \in 0..(count_nonzero(C.Cancer) - 1) : t > C.SympTime[f + 1]

Symptomatic(C, t) ==
    \E f \in 0..(count_nonzero(C.Cancer) - 1) : t >= C.SympTime[f + 1]

Symptom ==
    /\ pc = "Symptom"
    /\ IF Symptomatic(Ca[z], time)
       THEN \E d \in ColonoscopyDraws(World, z) :
              Goto(Colonoscopy(World, z, y, q, "Symp", d), "CancerProgression")
       ELSE Goto(World, "CancerProgression")
    /\ UNCHANGED <<Alive, NaturalDeathYear>>
    /\ Frame

\* three independent tests instead of the if/elif chain: a cancer whose
\* next transition times have all come moves up more than one stage
ProgressCancerStageCascade(stage, t, tI, tII, tIII) ==
    LET s1 == IF stage = 7 /\ t >= tI THEN 8 ELSE stage
        s2 == IF s1 = 8 /\ t >= tII THEN 9 ELSE s1
    IN  IF s2 = 9 /\ t >= tIII THEN 10 ELSE s2

\* Cancer Progression: each of the first l_ca slots moves up one stage when
\* its transition time has come
ProgressCancerStage(stage, t, tI, tII, tIII) ==
    IF stage = 7 /\ t >= tI THEN 8
    ELSE IF stage = 8 /\ t >= tII THEN 9
    ELSE IF stage = 9 /\ t >= tIII THEN 10
    ELSE stage

CancerProgressionOf(C, t) ==
    LET l_ca == count_nonzero(C.Cancer)
    IN  [C EXCEPT !.Cancer =
            [i \in 1..Len(C.Cancer) |->
                IF i <= l_ca
                THEN ProgressCancerStage(C.Cancer[i], t, C.TimeStage_I[i],
                                         C.TimeStage_II[i], C.TimeStage_III[i])
                ELSE C.Cancer[i]]]

\* CancerProgression, but scheduled care follows in every quarter
CancerProgressionThenCare ==
    /\ pc = "CancerProgression"
    /\ Goto([World EXCEPT !.Ca[z] = CancerProgressionOf(@, time)], "Surveillance")
    /\ UNCHANGED <<Alive, NaturalDeathYear>>
    /\ Frame

CancerProgression ==
    /\ pc = "CancerProgression"
    /\ Goto([World EXCEPT !.Ca[z] = CancerProgressionOf(@, time)],
            IF q = 1 THEN "Surveillance" ELSE "EndQuarter")
    /\ UNCHANGED <<Alive, NaturalDeathYear>>
    /\ Frame


\* The surveillance schedule applied whether or not surveillance is
\* switched on.
SurveillanceFlagUnflagged(L, yy) ==
    \/ IF yy - L.Polyp = 5 /\ yy - L.Colonoscopy >= 5 THEN TRUE
       ELSE IF yy - L.Polyp > 5 /\ yy - L.Polyp <= 9 /\ yy - L.Colonoscopy >= 5 THEN TRUE
       ELSE IF yy - L.AdvPolyp = 3 /\ yy - L.Colonoscopy >= 3 THEN TRUE
       ELSE IF L.AdvPolyp # NoHistory
            THEN yy - L.AdvPolyp >= 5 /\ yy - L.Colonoscopy >= 5
       ELSE FALSE
    \/ /\ L.Cancer # NoHistory
       /\ IF yy - L.Cancer = 1 /\ yy - L.Colonoscopy = 1 THEN TRUE
          ELSE IF yy - L.Cancer = 4 /\ yy - L.Colonoscopy = 3 THEN TRUE
          ELSE yy - L.Cancer >= 5 /\ yy - L.Colonoscopy >= 5

\* SurveillanceFlag, but the cancer schedule runs without a cancer on record
SurveillanceFlagAfterAnyVisit(L, yy) ==
    \/ /\ flag("Polyp_Surveillance")
       /\ IF yy - L.Polyp = 5 /\ yy - L.Colonoscopy >= 5 THEN TRUE
          ELSE IF yy - L.Polyp > 5 /\ yy - L.Polyp <= 9 /\ yy - L.Colonoscopy >= 5 THEN TRUE
          ELSE IF yy - L.AdvPolyp = 3 /\ yy - L.Colonoscopy >= 3 THEN TRUE
          ELSE IF L.AdvPolyp # NoHistory
               THEN yy - L.AdvPolyp >= 5 /\ yy - L.Colonoscopy >= 5
          ELSE IF flag("AllPolypFollowUp")
               THEN L.Polyp # NoHistory /\ yy - L.Polyp >= 5 /\ yy - L.Colonoscopy >= 5
          ELSE FALSE
    \/ /\ flag("Cancer_Surveillance")
       /\ IF yy - L.Cancer = 1 /\ yy - L.Colonoscopy = 1 THEN TRUE
          ELSE IF yy - L.Cancer = 4 /\ yy - L.Colonoscopy = 3 THEN TRUE
          ELSE yy - L.Cancer >= 5 /\ yy - L.Colonoscopy >= 5

\* polyp and cancer surveillance: whether a follow-up colonoscopy is due
SurveillanceFlag(L, yy) ==
    \/ /\ flag("Polyp_Surveillance")
       /\ IF yy - L.Polyp = 5 /\ yy - L.Colonoscopy >= 5 THEN TRUE
          ELSE IF yy - L.Polyp > 5 /\ yy - L.Polyp <= 9 /\ yy - L.Colonoscopy >= 5 THEN TRUE
          ELSE IF yy - L.AdvPolyp = 3 /\ yy - L.Colonoscopy >= 3 THEN TRUE
          ELSE IF L.AdvPolyp # NoHistory
               THEN yy - L.AdvPolyp >= 5 /\ yy - L.Colonoscopy >= 5
          ELSE IF flag("AllPolypFollowUp")
               THEN L.Polyp # NoHistory /\ yy - L.Polyp >= 5 /\ yy - L.Colonoscopy >= 5
          ELSE FALSE
    \/ /\ flag("Cancer_Surveillance")
       /\ L.Cancer # NoHistory
       /\ IF yy - L.Cancer = 1 /\ yy - L.Colonoscopy = 1 THEN TRUE
          ELSE IF yy - L.Cancer = 4 /\ yy - L.Colonoscopy = 3 THEN TRUE
          ELSE yy - L.Cancer >= 5 /\ yy - L.Colonoscopy >= 5

Surveillance ==
    /\ pc = "Surveillance"
    /\ IF SurveillanceFlag(Last[z], y)
       THEN \E d \in ColonoscopyDraws(World, z) :
              Goto(Colonoscopy(World, z, y, q, "Foll", d), "Screening")
       ELSE Goto(World, "Screening")
    /\ UNCHANGED <<Alive, NaturalDeathYear>>
    /\ Frame

\* the larger of two configured probabilities
MaxRate(p, r) ==
    IF p = "always" \/ r = "always" THEN "always"
    ELSE IF p = "maybe" \/ r = "maybe" THEN "maybe"
    ELSE "never"

\* Limit of a stool or blood test: the sensitivity for the most advanced
\* lesion (a cancer overrides a polyp), at least 1 - specificity
TestLimit(W, zz) ==
    LET P == W.Polyp[zz].Polyps
        C == W.Ca[zz].Cancer
        ofPolyp == IF find_last_nonzero(P) >= 0 THEN RateAt(cfg.Sensitivity, ArrayMax(P))
                   ELSE "never"
        Limit   == IF find_last_nonzero(C) >= 0 THEN RateAt(cfg.Sensitivity, ArrayMax(C))
                   ELSE ofPolyp
    IN  MaxRate(Limit, cfg.FalsePositive)

\* After a positive test the patient is referred to colonoscopy, and
\* follows with probability FollowUp; from then on colonoscopy is the
\* patient's screening test.
Referred(W, positive, FollowUp, zz, yy, qq) ==
    IF ~positive THEN {W}
    ELSE UNION {IF fu
                THEN ColonoscopyOutcomes([W EXCEPT !.ScreeningPreference[zz] = 1],
                                         zz, yy, qq, "Scre")
                ELSE {W} : fu \in Draw(FollowUp)}

\* if PolypFlag or CancerFlag or AdvPolypFlag: ...
AfterRectoSigmo(r, FollowUp, zz, yy, qq) ==
    Referred(r.W, r.PolypFlag # 0 \/ r.CancerFlag # 0 \/ r.AdvPolypFlag # 0,
             FollowUp, zz, yy, qq)

\* perhaps we do screening?  Every world the screening step of patient zz
\* can leave behind.
ScreeningOutcomes(W, zz, yy, qq) ==
    LET preference == W.ScreeningPreference[zz]
        L == W.Last[zz]
        T == cfg.ScreeningTest[preference]
        tested == [W EXCEPT !.Last[zz].ScreenTest = yy]
    IN  IF ~(flag("Screening") /\ W.Included[zz] /\ preference # 0) THEN {W}
        ELSE IF ~(yy >= T.y_start /\ yy < T.y_end /\ yy - L.Colonoscopy >= T.y_after_colo)
        THEN {W}
        ELSE IF preference = 1
        THEN IF yy - L.Colonoscopy >= T.interval
             THEN ColonoscopyOutcomes(W, zz, yy, qq, "Scre")
             ELSE {W}
        ELSE IF yy - L.ScreenTest < T.interval THEN {W}
        ELSE UNION {
               IF ~adherent THEN {W}
               ELSE IF preference = 2
               THEN UNION {AfterRectoSigmo(RectoSigmo(tested, zz, yy, d), T.FollowUp,
                                           zz, yy, qq) : d \in RectoSigmoDraws(tested, zz)}
               ELSE UNION {Referred(tested, positive, T.FollowUp, zz, yy, qq) :
                              positive \in Draw(TestLimit(tested, zz))}
               : adherent \in Draw(T.Adherence)}

Screening ==
    /\ pc = "Screening"
    /\ \E W \in ScreeningOutcomes(World, z, y, q) : Goto(W, "Special")
    /\ UNCHANGED <<Alive, NaturalDeathYear>>
    /\ Frame

\* the year of the 'perfect' intervention
PerfectYear == 66

\* the 'perfect' intervention: every patient's lesions and records are wiped
Wiped(W) ==
    [W EXCEPT !.Polyp = [zz \in Patients |-> EmptyPolyp],
              !.Ca = [zz \in Patients |-> EmptyCa],
              !.Detected = [zz \in Patients |-> EmptyDetected],
              !.TumorRecord = << >>]

\* the years of the colonoscopies of the Kolo1, Kolo2 and Kolo3 scenarios:
\* ScreeningTest[0, 3], [0, 4], [0, 5]
KoloYears ==
    LET T == cfg.ScreeningTest[1]
    IN  IF flag("Kolo1") THEN <<T.y_start>>
        ELSE IF flag("Kolo2") THEN <<T.y_start, T.y_end>>
        ELSE IF flag("Kolo3") THEN <<T.y_start, T.y_end, T.interval>>
        ELSE << >>

\* one colonoscopy after the other, for each listed year that is this year
RECURSIVE KoloVisits(_, _, _, _, _)
KoloVisits(Ws, years, zz, yy, qq) ==
    IF years = << >> THEN Ws
    ELSE KoloVisits(IF Head(years) = yy
                    THEN UNION {ColonoscopyOutcomes(W, zz, yy, qq, "Scre") : W \in Ws}
                    ELSE Ws,
                    Tail(years), zz, yy, qq)

\* special scenarios (the configurations of the model set none of the study
\* flags Atkin, Schoen, Segnan, Holme, Po55 together with SpecialFlag)
SpecialOutcomes(W, zz, yy, qq) ==
    IF ~flag("SpecialFlag") THEN {W}
    ELSE IF flag("perfect") THEN (IF yy = PerfectYear THEN {Wiped(W)} ELSE {W})
    ELSE KoloVisits({W}, KoloYears, zz, yy, qq)

\* The special scenarios end the scheduled care of quarter 1; the polyps of
\* the patient are summarized after them.
Special ==
    /\ pc = "Special"
    /\ \E W \in SpecialOutcomes(World, z, y, q) :
         /\ Goto(W, "EndQuarter")
         /\ Prevalence' = IF W.fault = "none"
                          THEN SummarizePolyps(Prevalence, z, W.Polyp[z])
                          ELSE Prevalence
    /\ UNCHANGED <<Alive, NaturalDeathYear>>
    /\ UNCHANGED <<cfg, y, z, q, YearIncluded>>

\* the year's row written first instead of last
SnapshotNewestFirst(rows, included) == <<included>> \o rows

\* YearIncluded[yi, :] = Included: the row of year y follows the rows of
\* the years before it
Snapshot(rows, included) == Append(rows, included)

\* The end of one pass of the quarter loop: the next quarter, the next
\* patient, or, after the last patient, the cohort snapshot of the year.
EndQuarter ==
    /\ pc = "EndQuarter"
    /\ IF q < 4
       THEN /\ q' = q + 1 /\ pc' = "NaturalDeath"
            /\ UNCHANGED <<z, YearIncluded, Prevalence>>
       ELSE IF z < cfg.n - 1
       THEN /\ z' = z + 1 /\ q' = 1 /\ pc' = "NaturalDeath"
            /\ Prevalence' = SummarizeCancer(Prevalence, z, Ca[z])
            /\ UNCHANGED YearIncluded
       ELSE /\ YearIncluded' = Snapshot(YearIncluded, Included)
            /\ Prevalence' = SummarizeCancer(Prevalence, z, Ca[z])
            /\ pc' = "YearLoop"
            /\ UNCHANGED <<z, q>>
    /\ UNCHANGED <<cfg, y, Included, Alive, DeathCause, DeathYear, NaturalDeathYear,
                   Polyp, Ca, Detected, Last, ScreeningPreference, TumorRecord,
                   DwellTimeProgression, DwellTimeFastCancer,
                   ProgressedCancer, DirectCancerCount, costLog, fault>>
    /\ calls' = << >>

\* The four quarters of a patient outside the active ones: every draw is
\* against a zero rate and every list is empty, so nothing changes.
InertPatient ==
    /\ pc = "NaturalDeath"
    /\ ~Active(z) /\ ~flag("SpecialFlag")
    /\ q = 1
    /\ q' = 4
    /\ pc' = "EndQuarter"
    /\ calls' = << >>
    /\ UNCHANGED <<cfg, y, z, Included, Alive, DeathCause, DeathYear, NaturalDeathYear,
                   Polyp, Ca, Detected, Last, ScreeningPreference, YearIncluded, Prevalence,
                   TumorRecord, DwellTimeProgression, DwellTimeFastCancer,
                   ProgressedCancer, DirectCancerCount, costLog, fault>>

\* while np.sum(Included) > 0 and y < 100: y += 1 ...
YearLoop ==
    /\ pc = "YearLoop"
    /\ IF (\E zz \in Patients : Included[zz]) /\ y < cfg.horizon
       THEN /\ y' = y + 1 /\ z' = 0 /\ q' = 1 /\ pc' = "NaturalDeath"
            /\ TumorRecord' = << >>
            /\ DwellTimeProgression' = 0
            /\ DwellTimeFastCancer' = 0
            /\ ProgressedCancer' = 0
            /\ DirectCancerCount' = Zeros(5)
            /\ Prevalence' = NoPrevalence
            /\ UNCHANGED NaturalDeathYear
       ELSE /\ pc' = "done"
            /\ NaturalDeathYear' =
                 [zz \in Patients |-> IF Alive[zz] THEN 4 * cfg.horizon ELSE NaturalDeathYear[zz]]
            /\ UNCHANGED <<y, z, q, TumorRecord, DwellTimeProgression, DwellTimeFastCancer,
                         ProgressedCancer, DirectCancerCount, Prevalence>>
    /\ calls' = << >>
    /\ UNCHANGED <<cfg, Included, Alive, DeathCause, DeathYear, Polyp, Ca, Detected,
                   Last, ScreeningPreference, YearIncluded, costLog, fault>>

\* ----------------------------------------------------------- configurations
\* A cohort of n patients, the first `active` of them at risk, in which
\* nothing happens: every rate is zero.  The configurations below switch
\* rates on.  The run is followed from year firstYear to year horizon (1 and
\* 100 in the code): with every rate of the years before firstYear zero,
\* those years leave the state as it was constructed.
Quiet(n, active) ==
    [n |-> n, active |-> active, firstYear |-> 1, horizon |-> MaxYear,
     LifeTable |-> << >>, NewPolyp |-> << >>, DirectCancerRate |-> << >>,
     Progression |-> [s \in 1..6 |-> "never"], FastCancer |-> [s \in 1..5 |-> "never"],
     Healing |-> [s \in 1..6 |-> "never"], Colo_Detection |-> "always",
     LocationMatrix |-> {1}, StageSojourn |-> {<<7, 40>>}, MortalityMatrix |-> {25},
     ColoReachMatrix |-> {1}, Complications |-> {}, flag |-> {},
     ScreeningPreference |-> 0,
     ScreeningTest |-> [p \in 1..3 |-> [Adherence |-> "always", FollowUp |-> "always",
                                        y_start |-> 1, y_end |-> 1, interval |-> 1,
                                        y_after_colo |-> 0]],
     Sensitivity |-> [s \in 1..10 |-> "always"], FalsePositive |-> "never",
     RectoSigmo_Detection |-> "always", RectoSigmoReachMatrix |-> {1},
     RectoComplications |-> {}]

Constructed(configs, start) ==
    /\ cfg \in configs
    /\ y = cfg.firstYear - 1 /\ z = 0 /\ q = 1 /\ pc = start
    /\ Included = [zz \in Patients |-> TRUE]
    /\ Alive = [zz \in Patients |-> TRUE]
    /\ DeathCause = [zz \in Patients |-> 0]
    /\ DeathYear = [zz \in Patients |-> 0]
    /\ NaturalDeathYear = [zz \in Patients |-> 0]
    /\ Polyp = [zz \in Patients |-> EmptyPolyp]
    /\ Ca = [zz \in Patients |-> EmptyCa]
    /\ Detected = [zz \in Patients |-> EmptyDetected]
    /\ Last = [zz \in Patients |-> EmptyLast]
    /\ ScreeningPreference =
         [zz \in Patients |-> IF Active(zz) THEN cfg.ScreeningPreference ELSE 0]
    /\ YearIncluded = [yy \in 1..(cfg.firstYear - 1) |-> [zz \in Patients |-> TRUE]]
    /\ Prevalence = NoPrevalence
    /\ TumorRecord = << >>
    /\ DwellTimeProgression = 0
    /\ DwellTimeFastCancer = 0
    /\ ProgressedCancer = 0
    /\ DirectCancerCount = Zeros(5)
    /\ costLog = [zz \in Patients |-> << >>]
    /\ calls = << >>
    /\ fault = "none"

\* The state at the head of the year loop, the lookup tables given.
InitWith(configs) == Constructed(configs, "YearLoop")

\* Polyps may appear in year 1 and every polyp progresses every quarter,
\* while a direct cancer appears every quarter of year 1; no cancer becomes
\* symptomatic within the horizon.
ProgressionCohort ==
    [Quiet(15, 1) EXCEPT !.NewPolyp = <<"maybe">>,
                         !.Progression = [s \in 1..6 |-> "always"],
                         !.DirectCancerRate = <<"always">>]

\* A polyp appears every quarter of year 1 and turns into a cancer at once.
FastTrackCohort ==
    [Quiet(15, 1) EXCEPT !.NewPolyp = <<"always">>,
                         !.FastCancer = [s \in 1..5 |-> "always"],
                         !.Progression = [s \in 1..6 |-> IF s = 6 THEN "always" ELSE "never"],
                         !.DirectCancerRate = <<"always">>]

\* A polyp appears every quarter of year 1, never progresses and may heal.
HealingCohort ==
    [Quiet(15, 1) EXCEPT !.NewPolyp = <<"always">>,
                         !.Healing = [s \in 1..6 |-> IF s = 1 THEN "maybe" ELSE "never"]]

\* Direct cancers may appear in year 1; they become symptomatic within a
\* quarter or not at all, are found by the symptomatic colonoscopy, which may
\* end in a fatal complication, and kill within a quarter or not at all;
\* the patient may die of other causes in year 2.
SymptomCohort ==
    [Quiet(15, 1) EXCEPT !.DirectCancerRate = <<"maybe">>,
                         !.StageSojourn = {<<10, 1>>, <<7, 40>>},
                         !.MortalityMatrix = {1, 25},
                         !.LifeTable = <<"never", "maybe">>,
                         !.Complications = {"PerforationDeath", "BleedingTransfDeath"}]

\* Two polyps appear in year 1 and progress every quarter; in year 2 the
\* patient is screened by rectosigmoidoscopy, which may perforate fatally,
\* and is referred to colonoscopy after a positive finding.
SigmoidoscopyCohort ==
    [Quiet(15, 1) EXCEPT !.NewPolyp = <<"always">>,
                         !.Progression = [s \in 1..6 |-> "always"],
                         !.flag = {"Screening"},
                         !.ScreeningPreference = 2,
                         !.ScreeningTest = [p \in 1..3 |->
                              [Adherence |-> "always", FollowUp |-> "always",
                               y_start |-> 2, y_end |-> 3, interval |-> 1,
                               y_after_colo |-> 0]],
                         !.RectoComplications = {"PerforationDeath"}]

\* One patient, two scenario colonoscopies in the first quarter of year 1,
\* each of which may perforate fatally; polyps may appear.
KoloCohort ==
    [Quiet(1, 1) EXCEPT !.NewPolyp = <<"maybe">>,
                        !.flag = {"SpecialFlag", "Kolo2"},
                        !.Complications = {"PerforationDeath"}]

\* Polyps may appear in year 1, and may progress and heal every quarter.
MixedPolypCohort ==
    [Quiet(15, 1) EXCEPT !.NewPolyp = <<"maybe">>,
                         !.Progression = [s \in 1..6 |-> "maybe"],
                         !.Healing = [s \in 1..6 |-> IF s = 1 THEN "maybe" ELSE "never"]]

\* Direct cancers may appear in year 1, in the cecum or the rectum; the
\* colonoscopy reaches the cecum or only the rectum.
MixedCancerCohort ==
    [Quiet(15, 1) EXCEPT !.DirectCancerRate = <<"maybe">>,
                         !.StageSojourn = {<<8, 2>>, <<10, 1>>},
                         !.LocationMatrix = {1, 13},
                         !.ColoReachMatrix = {1, 13}]

\* Two polyps appear in year 1, each in the cecum or the rectum; in year 2
\* the patient has a screening colonoscopy that reaches the cecum or only
\* the rectum and may miss a polyp.
ReachCohort ==
    [Quiet(1, 1) EXCEPT !.NewPolyp = <<"always">>,
                        !.LocationMatrix = {1, 13},
                        !.ColoReachMatrix = {1, 13},
                        !.Colo_Detection = "maybe",
                        !.flag = {"Screening"},
                        !.ScreeningPreference = 1,
                        !.ScreeningTest = [p \in 1..3 |->
                             [Adherence |-> "always", FollowUp |-> "always",
                              y_start |-> 2, y_end |-> 3, interval |-> 1,
                              y_after_colo |-> 0]]]

\* Two patients in the year of the 'perfect' intervention, in which a polyp
\* appears every quarter.
PerfectCohort ==
    [Quiet(2, 2) EXCEPT !.firstYear = PerfectYear, !.horizon = PerfectYear,
                        !.NewPolyp = [yy \in {PerfectYear} |-> "always"],
                        !.flag = {"SpecialFlag", "perfect"}]

\* A polyp appears every quarter of year 1; every polyp progresses every
\* quarter, and a polyp of stage 2 or 3 may shrink by a stage.
ShrinkCohort ==
    [Quiet(15, 1) EXCEPT !.NewPolyp = <<"always">>,
                         !.Progression = [s \in 1..6 |-> "always"],
                         !.Healing = [s \in 1..6 |-> IF s \in {2, 3} THEN "maybe"
                                                     ELSE "never"]]

\* A polyp appears every quarter of year 1 and a direct cancer may appear;
\* the cancer is symptomatic a quarter later, and the colonoscopy may miss
\* any polyp and any cancer.
FindingsCohort ==
    [Quiet(15, 1) EXCEPT !.NewPolyp = <<"always">>,
                         !.DirectCancerRate = <<"maybe">>,
                         !.StageSojourn = {<<8, 1>>},
                         !.Colo_Detection = "maybe"]

\* A polyp appears every quarter of year 1; every quarter every polyp may
\* progress and, if it does not, may turn into a cancer directly.
RaceCohort ==
    [Quiet(15, 1) EXCEPT !.NewPolyp = <<"always">>,
                         !.Progression = [s \in 1..6 |-> "maybe"],
                         !.FastCancer = [s \in 1..5 |-> "maybe"]]

\* Polyps appear in year 1, in the cecum or the rectum, and may grow to
\* stage 3; in year 2 the patient is screened by a rectosigmoidoscopy of the
\* given study, which reaches the cecum or only the rectum and may miss a
\* polyp; nobody is referred to colonoscopy.
StudyCohort(study) ==
    [Quiet(1, 1) EXCEPT !.NewPolyp = <<"always">>,
                        !.Progression = [s \in 1..6 |-> IF s <= 2 THEN "maybe" ELSE "never"],
                        !.LocationMatrix = {1, 13},
                        !.RectoSigmoReachMatrix = {1, 13},
                        !.RectoSigmo_Detection = "maybe",
                        !.flag = {"Screening", study},
                        !.ScreeningPreference = 2,
                        !.ScreeningTest = [p \in 1..3 |->
                             [Adherence |-> "always", FollowUp |-> "never",
                              y_start |-> 2, y_end |-> 3, interval |-> 1,
                              y_after_colo |-> 0]]]

\* Direct cancers may appear in year 1, in the cecum or the rectum, and stay
\* without symptoms; in year 2 the patient is screened by a
\* rectosigmoidoscopy that reaches the cecum or only the rectum and may miss
\* a cancer, and may or may not follow a referral to colonoscopy.
SeenCancerCohort ==
    [Quiet(15, 1) EXCEPT !.DirectCancerRate = <<"maybe">>,
                         !.LocationMatrix = {1, 13},
                         !.RectoSigmoReachMatrix = {1, 13},
                         !.RectoSigmo_Detection = "maybe",
                         !.flag = {"Screening"},
                         !.ScreeningPreference = 2,
                         !.ScreeningTest = [p \in 1..3 |->
                              [Adherence |-> "always", FollowUp |-> "maybe",
                               y_start |-> 2, y_end |-> 3, interval |-> 1,
                               y_after_colo |-> 0]]]

\* the years the surveillance cohorts are followed for
SurveillanceYears == 7

\* Polyps may appear in year 1 and progress every quarter; the screening
\* colonoscopy of year 2 removes them, and polyp surveillance is on.
PolypSurveillanceCohort ==
    [Quiet(15, 1) EXCEPT !.horizon = SurveillanceYears,
                         !.NewPolyp = <<"maybe">>,
                         !.Progression = [s \in 1..6 |-> "always"],
                         !.flag = {"Screening", "Polyp_Surveillance"},
                         !.ScreeningPreference = 1,
                         !.ScreeningTest = [p \in 1..3 |->
                              [Adherence |-> "always", FollowUp |-> "always",
                               y_start |-> 2, y_end |-> 3, interval |-> 1,
                               y_after_colo |-> 0]]]

\* A direct cancer may appear in year 1 and is symptomatic a quarter later;
\* the colonoscopy may miss it; cancer surveillance is on.
CancerSurveillanceCohort ==
    [Quiet(15, 1) EXCEPT !.horizon = SurveillanceYears,
                         !.DirectCancerRate = <<"maybe">>,
                         !.StageSojourn = {<<8, 1>>},
                         !.Colo_Detection = "maybe",
                         !.flag = {"Cancer_Surveillance"}]

\* Nobody falls ill; every year the patient takes a screening test that
\* may be falsely positive, and may or may not follow the referral.
StoolTestCohort ==
    [Quiet(15, 1) EXCEPT !.FalsePositive = "maybe",
                         !.flag = {"Screening"},
                         !.ScreeningPreference = 3,
                         !.ScreeningTest = [p \in 1..3 |->
                              [Adherence |-> "maybe", FollowUp |-> "maybe",
                               y_start |-> 1, y_end |-> 3, interval |-> 1,
                               y_after_colo |-> 0]]]

\* A direct cancer may appear in year 1 and stays without symptoms, a polyp
\* may appear, and the patient may die of other causes in year 1.
CarrierCohort ==
    [Quiet(15, 1) EXCEPT !.DirectCancerRate = <<"maybe">>,
                         !.NewPolyp = <<"maybe">>,
                         !.LifeTable = <<"maybe">>]

\* A cohort of five, so that round(n / 10) = 0: a direct cancer or a polyp
\* may appear in year 1.
SmallCohort ==
    [Quiet(5, 1) EXCEPT !.DirectCancerRate = <<"maybe">>,
                        !.NewPolyp = <<"maybe">>]

Init ==
    InitWith({ProgressionCohort, FastTrackCohort, HealingCohort, SymptomCohort,
              SigmoidoscopyCohort, KoloCohort, MixedPolypCohort, MixedCancerCohort,
              ReachCohort, PerfectCohort, ShrinkCohort, FindingsCohort,
              RaceCohort, StudyCohort("Schoen"), StudyCohort("Atkin"),
              StudyCohort("Segnan"), SeenCancerCohort,
              PolypSurveillanceCohort, CancerSurveillanceCohort,
              StoolTestCohort, CarrierCohort, SmallCohort})

Next ==
    \/ YearLoop
    \/ InertPatient
    \/ NaturalDeath
    \/ CancerDeath
    \/ NewPolyp
    \/ DirectCancer
    \/ Progress
    \/ Regress
    \/ Symptom
    \/ CancerProgression
    \/ Surveillance
    \/ Screening
    \/ Special
    \/ EndQuarter

Spec == Init /\ [][Next]_vars

\* ------------------------------------------- the cost allocator on its own
\* One patient with one detected cancer of any stage, found at any quarter
\* up to the present one; the present quarter is any up to year CostYears.
\* The patient then dies, of the tumor or of another cause.
CostCohort == Quiet(1, 1)

InitCost ==
    /\ cfg = CostCohort
    /\ y \in 1..CostYears /\ q \in 1..4 /\ z = 0 /\ pc = "Terminal"
    /\ Included = [zz \in Patients |-> TRUE]
    /\ Alive = [zz \in Patients |-> TRUE]
    /\ DeathCause = [zz \in Patients |-> 0]
    /\ DeathYear = [zz \in Patients |-> 0]
    /\ NaturalDeathYear = [zz \in Patients |-> 0]
    /\ Polyp = [zz \in Patients |-> EmptyPolyp]
    /\ Ca = [zz \in Patients |-> EmptyCa]
    /\ \E Start \in 4..(4 * CostYears + 3), stage \in 7..10 :
         /\ Start <= time
         /\ Detected = [zz \in Patients |->
                          DetectCancer(EmptyDetected, 0, stage, Start, 1, Never)]
    /\ Last = [zz \in Patients |-> EmptyLast]
    /\ ScreeningPreference = [zz \in Patients |-> 0]
    /\ YearIncluded = << >>
    /\ Prevalence = NoPrevalence
    /\ TumorRecord = << >>
    /\ DwellTimeProgression = 0
    /\ DwellTimeFastCancer = 0
    /\ ProgressedCancer = 0
    /\ DirectCancerCount = Zeros(5)
    /\ costLog = [zz \in Patients |-> << >>]
    /\ calls = << >>
    /\ fault = "none"

\* the death of the tumor: AddCosts(..., time, z, 'tu')
TumorEnd ==
    /\ pc = "Terminal"
    /\ Goto(AddCostsCall([World EXCEPT !.Included[z] = FALSE, !.DeathCause[z] = 2,
                                       !.DeathYear[z] = time],
                         time, z, "tu"),
            "done")
    /\ UNCHANGED <<Alive, NaturalDeathYear>>
    /\ Frame

\* the death of another cause: AddCosts(..., time, z, 'oc')
OtherCauseEnd ==
    /\ pc = "Terminal"
    /\ Alive' = [Alive EXCEPT ![z] = FALSE]
    /\ NaturalDeathYear' = [NaturalDeathYear EXCEPT ![z] = time]
    /\ Goto(AddCostsCall([World EXCEPT !.Included[z] = FALSE, !.DeathCause[z] = 1,
                                       !.DeathYear[z] = time],
                         time, z, "oc"),
            "done")
    /\ Frame

NextCost ==
    \/ TumorEnd
    \/ OtherCauseEnd

SpecCost == InitCost /\ [][NextCost]_vars

\* --------------------------------------------------- building the tables
\* Every lookup table has 1000 slots, one per value of _rand_idx_1000.
TableSlots == 1000
Locations == 1..13

\* round(a / b), halves to the even neighbour, for b # 0
Round(a, b) ==
    LET n  == IF b < 0 THEN 0 - a ELSE a
        d  == IF b < 0 THEN 0 - b ELSE b
        lo == n \div d
        r  == n % d
    IN  IF 2 * r < d THEN lo
        ELSE IF 2 * r > d THEN lo + 1
        ELSE IF lo % 2 = 0 THEN lo ELSE lo + 1

\* a bound of the slice arr[a:b] of an array of TableSlots entries
SliceBound(i) ==
    IF i < 0 THEN (IF i + TableSlots < 0 THEN 0 ELSE i + TableSlots)
    ELSE IF i > TableSlots THEN TableSlots ELSE i

\* np.sum(w[0:f])
RECURSIVE SumTo(_, _)
SumTo(w, f) == IF f = 0 THEN 0 ELSE SumTo(w, f - 1) + w[f]

\* Ende of location f: round(sum(w[0:f]) / sum(w) * 1000)
Ende(w, f) == Round(1000 * SumTo(w, f), SumTo(w, 13))

\* Counter of location f: the Ende of the location before, 0 at first
Counter(w, f) == IF f = 1 THEN 0 ELSE Ende(w, f - 1)

\* LocationMatrix[Counter:Ende] = f for f = 1..13 in turn: the value a
\* slot is left with, 0 if no slice covers it
LocationAt(w, slot) ==
    LET covering == {f \in Locations :
                        /\ SliceBound(Counter(w, f)) <= slot
                        /\ slot < SliceBound(Ende(w, f))}
    IN  IF covering = {} THEN 0
        ELSE CHOOSE f \in covering : \A g \in covering : g <= f

\* the locations of new polyps: the values of the table built from the
\* weights w; a sum of zero makes round() raise
LocationTable(w) ==
    IF SumTo(w, 13) = 0
    THEN [fault |-> "ValueError", table |-> {}]
    ELSE [fault |-> "none",
          table |-> {LocationAt(w, slot) : slot \in 0..(TableSlots - 1)}]

\* TmpLoc[f, 0:limit] = 1 with limit = round(1000 * reach[f]), each row
\* or-ed into the next, and 14 less the column sums: a slot holds the first
\* location whose limit lies beyond it, 14 if there is none.  The
\* fractions r are in thousandths.
ReachAt(r, slot) ==
    LET rows == {f \in Locations : slot < SliceBound(r[f])}
    IN  IF rows = {} THEN 14
        ELSE CHOOSE f \in rows : \A g \in rows : f <= g

ReachTable(r) == {ReachAt(r, slot) : slot \in 0..(TableSlots - 1)}

\* The multipliers are kept in hundredths: np.ones gives Unit.
Unit == 100
StageRows == 0..9

\* GenderProgression = np.ones((10, 2)) with rows 0:4 and 4:6 of column 1
\* set from the female multipliers
GenderProgression(female) ==
    [row \in StageRows |->
        [g \in 0..1 |->
            IF g = 1 /\ row \in 0..3 THEN female.early_progression_female
            ELSE IF g = 1 /\ row \in 4..5 THEN female.advanced_progression_female
            ELSE Unit]]

\* LocationProgression: rows 0..4, row 5 and rows 6..9 set from the three
\* location vectors
LocationProgression(Loc) ==
    [row \in StageRows |->
        IF row <= 4 THEN Loc.EarlyProgression
        ELSE IF row = 5 THEN Loc.AdvancedProgression
        ELSE Loc.CancerProgression]

\* The tables are built once, before the first year.
BuildTables ==
    /\ pc = "Tables"
    /\ LET L == LocationTable(cfg.Location.NewPolyp)
       IN  /\ fault' = L.fault
           /\ pc' = IF L.fault # "none" THEN "aborted" ELSE "YearLoop"
           /\ cfg' = [cfg EXCEPT
                        !.RectoSigmoReachMatrix = ReachTable(cfg.Location.RectoSigmoReach),
                        !.ColoReachMatrix = ReachTable(cfg.Location.ColoReach),
                        !.LocationMatrix = L.table,
                        !.GenderProgression = GenderProgression(cfg.female),
                        !.LocationProgression = LocationProgression(cfg.Location)]
    /\ UNCHANGED <<y, z, q, Included, Alive, DeathCause, DeathYear, NaturalDeathYear,
                   Polyp, Ca, Detected, Last, ScreeningPreference, YearIncluded, Prevalence,
                   TumorRecord, DwellTimeProgression, DwellTimeFastCancer,
                   ProgressedCancer, DirectCancerCount, costLog, calls>>

\* weights or fractions a at the cecum, b at the rectum and none between
Ends(a, b) == [f \in Locations |-> IF f = 1 THEN a ELSE IF f = 13 THEN b ELSE 0]

\* Two patients, one at risk: polyps may appear in year 1, and in year 2
\* the patient has a screening colonoscopy that may miss a polyp.  The
\* new-polyp weights are even, all zero, or hold a negative entry; the
\* reach fractions are all or half of the visits to the cecum, all zero,
\* or hold a negative entry; the early and advanced progression
\* multipliers differ.
TableCohorts ==
    {[Quiet(2, 1) EXCEPT !.NewPolyp = <<"maybe">>,
                         !.Colo_Detection = "maybe",
                         !.flag = {"Screening"},
                         !.ScreeningPreference = 1,
                         !.ScreeningTest = [p \in 1..3 |->
                              [Adherence |-> "always", FollowUp |-> "always",
                               y_start |-> 2, y_end |-> 3, interval |-> 1,
                               y_after_colo |-> 0]]]
       @@ [Location |-> [NewPolyp |-> Ends(w[1], w[2]),
                         ColoReach |-> Ends(r[1], r[2]),
                         RectoSigmoReach |-> Ends(0, 1000),
                         EarlyProgression |-> Ends(m[1], Unit),
                         AdvancedProgression |-> Ends(m[2], Unit),
                         CancerProgression |-> Ends(Unit, m[1])],
           female |-> [early_progression_female |-> m[1],
                       advanced_progression_female |-> m[2]],
           GenderProgression |-> << >>, LocationProgression |-> << >>] :
       w \in {<<1, 1>>, <<0, 0>>, <<-1, 2>>, <<3, -1>>},
       r \in {<<1000, 1000>>, <<500, 1000>>, <<0, 0>>, <<-500, 1000>>},
       m \in {<<120, 80>>, <<90, 110>>}}

InitTables == Constructed(TableCohorts, "Tables")

NextTables ==
    \/ BuildTables
    \/ Next

SpecTables == InitTables /\ [][NextTables]_vars


\* ------------------------------------------------------------------ claims
\* the slots of an array that hold a record
Live(arr) == {i \in 1..Len(arr) : arr[i] # 0}

\* C1: with the undetected-cancer list full (25 records), a direct onset, a
\* progression past stage 6 and a fast-track conversion are all discarded
\* silently: the step raises no fault and the list stays full.
C1_FullCancerListDiscardsSilently ==
    [][\A zz \in Patients :
          (pc \in {"DirectCancer", "Progress"} /\ zz = z
             /\ count_nonzero(Ca[zz].Cancer) = CaCap)
          => (fault' = "none" /\ count_nonzero(Ca'[zz].Cancer) = CaCap)]_vars

\* C2: after every polyp removal the live polyp records occupy slots
\* 0..count-1, with no empty slot below a live record.
C2_PolypsCompact ==
    \A zz \in Patients :
        \A i \in 1..count_nonzero(Polyp[zz].Polyps) : Polyp[zz].Polyps[i] # 0

\* C7: however many polyp onsets a patient goes through, no step faults on
\* the polyp arrays, the patient never holds more than 50 live polyps, and
\* the onset step of a patient who holds 50 changes no polyp array.
C7_PolypCapacity ==
    [][\A zz \in Patients :
          /\ count_nonzero(Polyp'[zz].Polyps) <= PolypCap
          /\ pc = "NewPolyp" => fault' = "none"
          /\ (pc = "NewPolyp" /\ count_nonzero(Polyp[zz].Polyps) = PolypCap)
               => Polyp'[zz] = Polyp[zz]]_vars

\* C7 witness: the onset step of a year in which an onset is certain has
\* just run for a patient who already held 50 polyps, none of them new.
C7_Witness ==
    /\ pc = "DirectCancer"
    /\ RateAt(cfg.NewPolyp, y) = "always"
    /\ count_nonzero(Polyp[z].Polyps) = PolypCap
    /\ \A i \in Live(Polyp[z].Polyps) : Polyp[z].PolypYear[i] < time
    /\ fault = "none"

\* what identifies an undetected-cancer record apart from its stage
CaRecord(C, i) ==
    <<C.CancerYear[i], C.CancerLocation[i], C.DwellTime[i], C.SympTime[i],
      C.SympStage[i], C.TimeStage_I[i], C.TimeStage_II[i], C.TimeStage_III[i]>>

\* C8: in every step, each undetected-cancer record either is new (stage 7)
\* or is a record of the state before at the same stage or one stage up,
\* never beyond 10; and every record a colonoscopy adds to the detected list
\* carries the stage and location an undetected record had before the visit.
C8_CancerStageMonotone ==
    [][\A zz \in Patients :
          /\ \A i \in Live(Ca'[zz].Cancer) :
                \/ /\ pc \in {"DirectCancer", "Progress"}
                   /\ Ca'[zz].Cancer[i] = 7 /\ Ca'[zz].CancerYear[i] = time
                \/ \E j \in Live(Ca[zz].Cancer) :
                      /\ CaRecord(Ca'[zz], i) = CaRecord(Ca[zz], j)
                      /\ Ca'[zz].Cancer[i] \in {Ca[zz].Cancer[j], Ca[zz].Cancer[j] + 1}
                      /\ Ca'[zz].Cancer[i] \in 7..10
          /\ \A k \in Live(Detected'[zz].Cancer) \ Live(Detected[zz].Cancer) :
                \E j \in Live(Ca[zz].Cancer) :
                      /\ Detected'[zz].Cancer[k] = Ca[zz].Cancer[j]
                      /\ Detected'[zz].CancerLocation[k] = Ca[zz].CancerLocation[j]]_vars

\* C8 witness: a cancer that had moved up from stage 7 has been detected.
C8_Witness ==
    \E zz \in Patients : \E k \in Live(Detected[zz].Cancer) : Detected[zz].Cancer[k] > 7

\* C9: a patient excluded in one year's snapshot is excluded in the next
\* year's, so the number of included patients never increases.
C9_CohortShrinks ==
    \A i \in 1..(Len(YearIncluded) - 1) :
        /\ \A zz \in Patients : YearIncluded[i + 1][zz] => YearIncluded[i][zz]
        /\ Cardinality({zz \in Patients : YearIncluded[i + 1][zz]})
             <= Cardinality({zz \in Patients : YearIncluded[i][zz]})

\* C9 witness: a patient included in year 1's snapshot and excluded in year 2's.
C9_Witness ==
    /\ Len(YearIncluded) >= 2
    /\ \E zz \in Patients : YearIncluded[1][zz] /\ ~YearIncluded[2][zz]


\* C4: once Included is false the patient is terminal: no step changes the
\* patient's polyp, undetected-cancer or detected-cancer records, death cause
\* or death year, and no Colonoscopy or RectoSigmo is performed on a patient
\* who is excluded when the procedure starts.
C4_ExcludedPatientIsTerminal ==
    [][/\ \A zz \in Patients :
             ~Included[zz] =>
                /\ Polyp'[zz] = Polyp[zz]
                /\ Ca'[zz] = Ca[zz]
                /\ Detected'[zz] = Detected[zz]
                /\ DeathCause'[zz] = DeathCause[zz]
                /\ DeathYear'[zz] = DeathYear[zz]
       /\ \A i \in 1..Len(calls') : calls'[i].Included]_vars

\* C5: every patient with a detected cancer whose simulation has ended, by
\* death or by the end of the run, has had AddCosts applied.
C5_DetectedCancerIsBilled ==
    \A zz \in Patients :
        (SumPositive(Detected[zz].Cancer) /\ (~Included[zz] \/ pc = "done"))
          => costLog[zz] # << >>

\* C6: neither a colonoscopy detecting a cancer nor AddCosts faults on the
\* detected-cancer list, whatever its size up to the capacity of 50.
C6_DetectedListNeverFaults ==
    fault \notin {"Detected_Cancer", "SubCost"}

\* The allocations AddCosts has made: one for each call and each detected
\* cancer of the patient, with the cancer's time of detection and stage.
Allocations ==
    UNION {UNION {{[Start |-> Detected[zz].CancerYear[x1],
                    stage |-> Detected[zz].Cancer[x1],
                    Ende  |-> costLog[zz][i].time,
                    mode  |-> costLog[zz][i].mode,
                    cost  |-> costLog[zz][i].cost[x1]] :
                     x1 \in 1..Len(costLog[zz][i].cost)} :
                  i \in 1..Len(costLog[zz])} :
           zz \in Patients}

\* C3: for a detected cancer that lasted more than 5 years (20 quarters)
\* AddCosts allocates one quarter at the initial rate, four full years and
\* part of a fifth at the continuing rate (so fewer than 20 quarters,
\* however long the survival), and nothing at the final rate.
C3_LongSurvivalIsCapped ==
    \A a \in Allocations :
       a.Ende - a.Start > 20
       => /\ a.cost.Initial = {a.Start}
          /\ Cardinality(a.cost.Cont) >= 16
          /\ Cardinality(a.cost.Cont) < 20
          /\ a.cost.Final = {} /\ a.cost.fin = << >>

\* C10: for a detected cancer that lasted at most a quarter of a year,
\* AddCosts allocates the initial cost of the cancer's stage in the quarter
\* of detection and nothing at the continuing or final rate, whether the
\* patient died of the tumor or of another cause.
C10_ShortDurationInitialOnly ==
    \A a \in Allocations :
       a.Ende - a.Start <= 1
       => /\ a.cost.Initial = {a.Start}
          /\ a.cost.stage_idx = a.stage - 7
          /\ a.cost.ini = <<Payment(a.Start \div 4 - 1, 1)>>
          /\ a.cost.Cont = {} /\ a.cost.Final = {}
          /\ a.cost.con = << >> /\ a.cost.fin = << >>

\* C10 witness: a stage-I cancer found in one quarter, the patient dead of
\* the tumor in the next, and AddCosts has run.
C10_Witness ==
    \E a \in Allocations :
       a.Ende - a.Start = 1 /\ a.stage = 7 /\ a.mode = "tu" /\ pc = "done"


PolypRecord(P, i) ==
    <<P.Polyps[i], P.PolypYear[i], P.PolypLocation[i], P.EarlyProgression[i],
      P.AdvProgression[i]>>

\* the live polyps before the reach r, in slot order
PolypsBefore(P, r) ==
    LET live == SelectSeq([i \in 1..Len(P.Polyps) |-> i],
                          LAMBDA i : P.Polyps[i] # 0 /\ P.PolypLocation[i] < r)
    IN  [k \in 1..Len(live) |-> PolypRecord(P, live[k])]

\* the undetected cancers before the reach r, in slot order
CancersBefore(C, r) ==
    LET live == SelectSeq([i \in 1..Len(C.Cancer) |-> i],
                          LAMBDA i : C.Cancer[i] # 0 /\ C.CancerLocation[i] < r)
    IN  [k \in 1..Len(live) |-> <<C.Cancer[live[k]]>> \o CaRecord(C, live[k])]

\* C11: a colonoscopy detects a polyp or cancer only at the locations
\* reach..13: in a step that performs one colonoscopy, the polyps and the
\* undetected cancers at locations before the drawn reach are all kept,
\* unchanged and in order, and every cancer the visit adds to the detected
\* list lies at or beyond the reach.
C11_OnlyWithinReach ==
    [][(Len(calls') = 1 /\ calls'[1].proc = "Colonoscopy" /\ fault' = "none")
       => LET zz == calls'[1].z
              r  == calls'[1].reach
          IN  /\ PolypsBefore(Polyp'[zz], r) = PolypsBefore(Polyp[zz], r)
              /\ CancersBefore(Ca'[zz], r) = CancersBefore(Ca[zz], r)
              /\ \A i \in Live(Detected'[zz].Cancer) \ Live(Detected[zz].Cancer) :
                    Detected'[zz].CancerLocation[i] >= r]_vars

\* C11 witness: a colonoscopy that reached the rectum only has removed a
\* polyp and left the patient's polyp in the cecum in place.
C11_Witness ==
    /\ Len(calls) = 1 /\ calls[1].proc = "Colonoscopy"
    /\ calls[1].reach = 13 /\ calls[1].tier = "Colonoscopy_Polyp"
    /\ \E i \in Live(Polyp[calls[1].z].Polyps) : Polyp[calls[1].z].PolypLocation[i] = 1


\* screening, the special scenarios and both kinds of surveillance are off
NoProgramme ==
    cfg.flag \cap {"Screening", "SpecialFlag", "Polyp_Surveillance",
                   "Cancer_Surveillance"} = {}

\* C12: with the Screening, SpecialFlag, Polyp_Surveillance and
\* Cancer_Surveillance flags all off, every procedure a step performs is a
\* symptomatic colonoscopy, no patient's last screening test ever changes
\* (no rectosigmoidoscopy, no stool or blood test), and a cancer death is
\* only ever recorded for a patient who was included and is excluded by it,
\* so that there are never more cancer deaths than patients.
C12_NoProgrammeOnlySymptomatic ==
    [][NoProgramme
       => /\ \A i \in 1..Len(calls') :
                calls'[i].proc = "Colonoscopy" /\ calls'[i].Modus = "Symp"
          /\ \A zz \in Patients :
                /\ Last'[zz].ScreenTest = Last[zz].ScreenTest
                /\ (DeathCause'[zz] = 2 /\ DeathCause[zz] # 2)
                      => (Included[zz] /\ ~Included'[zz])
                /\ DeathCause[zz] = 2 => DeathCause'[zz] = 2]_vars

\* C12 witness: with all four flags off a patient's cancer was found by a
\* symptomatic colonoscopy in year 1 and the patient lived into year 2,
\* where a surveillance visit would be due.
C12_Witness ==
    /\ NoProgramme
    /\ y = 2
    /\ \E zz \in Patients : Last[zz].Cancer = 1 /\ Last[zz].Colonoscopy = 1 /\ Included[zz]


\* C13: a step executed for patient z changes the polyp, cancer and
\* detected-cancer records, the Last_* fields and the Included, Alive and
\* death fields of no other patient.
C13_PatientsIndependent ==
    [][\A zz \in Patients \ {z} :
          /\ Polyp'[zz] = Polyp[zz] /\ Ca'[zz] = Ca[zz] /\ Detected'[zz] = Detected[zz]
          /\ Last'[zz] = Last[zz]
          /\ Included'[zz] = Included[zz] /\ Alive'[zz] = Alive[zz]
          /\ DeathCause'[zz] = DeathCause[zz] /\ DeathYear'[zz] = DeathYear[zz]]_vars


\* the polyp of P in slot i and the polyp of Q in slot j are the same record
\* of the new-polyp step: a patient gets at most one new polyp a quarter,
\* and the step dates it.  A slot of stage 0 that the progression step has
\* raised carries no date and is not told apart from another such slot.
SamePolyp(P, i, Q, j) ==
    /\ P.Polyps[i] # 0 /\ Q.Polyps[j] # 0
    /\ P.PolypYear[i] # 0
    /\ P.PolypYear[i] = Q.PolypYear[j]

\* C14 as stated: no step lowers the stage of a polyp that stays in the list.
C14_PolypStageMonotone ==
    [][\A zz \in Patients :
         \A i \in 1..(PolypCap + 1), j \in 1..(PolypCap + 1) :
            SamePolyp(Polyp[zz], i, Polyp'[zz], j)
            => Polyp'[zz].Polyps[j] >= Polyp[zz].Polyps[i]]_vars

\* C14 amended: the stage of a polyp that stays in the list is lowered only
\* by the regression step, and then by exactly one; it is raised only by
\* the progression step, and then by exactly one; the location and the two
\* risk percentiles of the record never change.
C14_PolypStageStepwise ==
    [][\A zz \in Patients :
         \A i \in 1..(PolypCap + 1), j \in 1..(PolypCap + 1) :
            SamePolyp(Polyp[zz], i, Polyp'[zz], j)
            => LET before == Polyp[zz].Polyps[i]
                   after  == Polyp'[zz].Polyps[j]
               IN  /\ after < before => (pc = "Regress" /\ after = before - 1)
                   /\ after > before => (pc = "Progress" /\ after = before + 1)
                   /\ Polyp'[zz].PolypLocation[j] = Polyp[zz].PolypLocation[i]
                   /\ Polyp'[zz].EarlyProgression[j] = Polyp[zz].EarlyProgression[i]
                   /\ Polyp'[zz].AdvProgression[j] = Polyp[zz].AdvProgression[i]]_vars

\* C14 witness: in the cohort whose polyps progress every quarter, a polyp
\* is behind the stage its age gives it after the regression step: it has
\* shrunk and is still in the list.
C14_Witness ==
    /\ cfg = ShrinkCohort /\ pc = "Symptom"
    /\ \E i \in Live(Polyp[z].Polyps) :
          Polyp[z].Polyps[i] < 2 + (time - Polyp[z].PolypYear[i])


\* the live undetected cancers in slot order, each with its time of
\* creation, location, dwell time and the five values sampled at creation
CaRecords(C) ==
    LET live == SelectSeq([i \in 1..Len(C.Cancer) |-> i], LAMBDA i : C.Cancer[i] # 0)
    IN  [k \in 1..Len(live) |-> CaRecord(C, live[k])]

\* a is b with some of its elements left out
RECURSIVE IsSubSeq(_, _)
IsSubSeq(a, b) ==
    IF a = << >> THEN TRUE
    ELSE IF b = << >> THEN FALSE
    ELSE IF Head(a) = Head(b) THEN IsSubSeq(Tail(a), Tail(b))
    ELSE IsSubSeq(a, Tail(b))

\* C15: the symptom time, the symptom stage and the three stage-transition
\* times of an undetected cancer are those it was created with.  A step
\* that creates cancers appends records dated now to the records there
\* were; every other step leaves the records there were, or some of them,
\* in their order and with every field as it was.
C15_SampledOnce ==
    [][\A zz \in Patients :
          LET before == CaRecords(Ca[zz])
              after  == CaRecords(Ca'[zz])
          IN  IF pc \in {"DirectCancer", "Progress"}
              THEN /\ Len(after) >= Len(before)
                   /\ SubSeq(after, 1, Len(before)) = before
                   /\ \A k \in (Len(before) + 1)..Len(after) : after[k][1] = time
              ELSE IsSubSeq(after, before)]_vars

\* C15 witness: a patient has a detected cancer and an undetected cancer
\* that was already there when the other was detected and removed, and
\* that has since moved up a stage.
C15_Witness ==
    \E zz \in Patients :
       \E k \in Live(Detected[zz].Cancer), i \in Live(Ca[zz].Cancer) :
          /\ Ca[zz].CancerYear[i] < Detected[zz].CancerYear[k]
          /\ Ca[zz].Cancer[i] > 7


\* C16: every run ends, after at most `horizon` years (100 in the code),
\* and a run that has ended before the last year is one whose every
\* patient is excluded.
C16_EndsAtHorizonOrEmptyCohort ==
    /\ y <= cfg.horizon
    /\ (pc \in {"done", "aborted"} /\ y < cfg.horizon) =>
           \A zz \in Patients : ~Included[zz]


\* a table of weights or fractions that sums to zero or holds a negative
\* entry
Malformed(w) == SumTo(w, 13) = 0 \/ \E f \in Locations : w[f] < 0

\* C18: with new-polyp weights or reach fractions that sum to zero or hold
\* a negative entry, table building ends the run in an error and no
\* patient-quarter is simulated.
C18_MalformedTablesAreFatal ==
    (Malformed(cfg.Location.NewPolyp) \/ Malformed(cfg.Location.ColoReach)) =>
        pc \in {"Tables", "aborted"} /\ y = 0


\* the colonoscopies of patient zz in the step
Visits(zz) ==
    {k \in 1..Len(calls') : calls'[k].proc = "Colonoscopy" /\ calls'[k].z = zz}

\* the stages of the detected-cancer records of patient zz added in the step
Converted(zz) ==
    {Detected'[zz].Cancer[k] :
        k \in (count_nonzero(Detected[zz].Cancer) + 1)..count_nonzero(Detected'[zz].Cancer)}

\* C19 as stated: a colonoscopy converts at most one undetected cancer, so
\* a patient's detected list grows by at most one record per visit.
C19_AtMostOneConverted ==
    [][\A zz \in Patients :
          count_nonzero(Detected'[zz].Cancer) <=
              count_nonzero(Detected[zz].Cancer) + Cardinality(Visits(zz))]_vars

\* C19 as the code has it: a colonoscopy converts every cancer it detects,
\* each leaving the undetected list for the detected one, and adds one
\* entry to the year's tumor record, that of the most advanced of them.
\* Stated of the steps with one colonoscopy.
C19_AllConvertedOneRecorded ==
    [][(fault' = "none" /\ Cardinality(Visits(z)) = 1) =>
          \A zz \in Patients :
             /\ count_nonzero(Detected'[zz].Cancer) - count_nonzero(Detected[zz].Cancer)
                  = count_nonzero(Ca[zz].Cancer) - count_nonzero(Ca'[zz].Cancer)
             /\ Len(TumorRecord') <= Len(TumorRecord) + Cardinality(Visits(z))
             /\ (zz = z /\ Converted(zz) # {}) =>
                   /\ Len(TumorRecord') = Len(TumorRecord) + 1
                   /\ TumorRecord'[Len(TumorRecord')].PatientNumber = zz + 1
                   /\ TumorRecord'[Len(TumorRecord')].Stage \in Converted(zz)
                   /\ \A st \in Converted(zz) : st <= TumorRecord'[Len(TumorRecord')].Stage]_vars

\* C19 witness: one colonoscopy has just converted two cancers of different
\* stages, and the tumor record holds the higher stage.
C19_Witness ==
    \E zz \in Patients :
       /\ Len(calls) = 1 /\ calls[1].proc = "Colonoscopy" /\ calls[1].z = zz
       /\ count_nonzero(Detected[zz].Cancer) = 2
       /\ Detected[zz].CancerYear[1] = Detected[zz].CancerYear[2]
       /\ Detected[zz].Cancer[1] # Detected[zz].Cancer[2]
       /\ Len(TumorRecord) > 0
       /\ TumorRecord[Len(TumorRecord)].Stage = Max2(Detected[zz].Cancer[1], Detected[zz].Cancer[2])


\* C20: a colonoscopy that ends in a fatal perforation or a fatal bleeding
\* with transfusion excludes the patient with death cause 3 (procedure) and
\* finalises the costs of the patient's detected cancers by a call of
\* AddCosts in other-cause mode at the time of the visit.
C20_ProcedureDeathFinalisesCosts ==
    [][\A zz \in Patients :
          (/\ fault' = "none"
           /\ \E k \in Visits(zz) :
                 /\ calls'[k].Included
                 /\ calls'[k].complication \in {"PerforationDeath", "BleedingTransfDeath"})
          => /\ ~Included'[zz]
             /\ DeathCause'[zz] = 3
             /\ \E j \in (Len(costLog[zz]) + 1)..Len(costLog'[zz]) :
                    costLog'[zz][j].mode = "oc" /\ costLog'[zz][j].time = time]_vars


\* the slots a loop over the patient's polyps reads: the first
\* count_nonzero(Polyp_Polyps[z, :]) ones
ReadAsPolyps(P) == 1..count_nonzero(P.Polyps)

\* C21: where the progression loop, the regression loop or a procedure's
\* detection loop is about to read the current patient's polyps, every
\* slot it will read holds a stage in 1..6 and a location in 1..13.
C21_LoopsReadLivePolyps ==
    pc \in {"Progress", "Regress", "Symptom", "Surveillance", "Screening", "Special"} =>
        \A f \in ReadAsPolyps(Polyp[z]) :
           /\ Polyp[z].Polyps[f] \in 1..6
           /\ Polyp[z].PolypLocation[f] \in 1..13


\* the entries of the year's tumor record that carry the number of patient zz
EntriesOf(zz) == {i \in 1..Len(TumorRecord) : TumorRecord[i].PatientNumber = zz + 1}

\* the detected cancers of patient zz found in the current year
FoundThisYear(zz) ==
    {k \in Live(Detected[zz].Cancer) : Detected[zz].CancerYear[k] \div 4 = y}

\* C22 as stated: the tumor record of a year holds at most one entry with
\* a patient's number.
C22_OneEntryPerPatientYear ==
    \A zz \in Patients : Cardinality(EntriesOf(zz)) <= 1

\* C22 as the code has it: the tumor record of a year holds one entry for
\* each colonoscopy that found a cancer, so a patient has an entry in every
\* year in which a cancer of theirs was found, and never more entries than
\* cancers found that year.
C22_OneEntryPerFindingVisit ==
    fault = "none" =>
        \A zz \in Patients :
           /\ Cardinality(EntriesOf(zz)) <= Cardinality(FoundThisYear(zz))
           /\ FoundThisYear(zz) # {} => EntriesOf(zz) # {}

\* C22 witness: two colonoscopies of one patient in one year, in different
\* quarters, have each found a cancer, and the year's tumor record holds
\* two entries with that patient's number.
C22_Witness ==
    \E zz \in Patients :
       /\ Cardinality(EntriesOf(zz)) = 2
       /\ \E k1, k2 \in FoundThisYear(zz) :
             Detected[zz].CancerYear[k1] # Detected[zz].CancerYear[k2]


\* C23: every quarter AddCosts charges is added to the entry of
\* Money_Treatment of the year that holds the quarter (entry year - 1), and
\* the initial cost to the entry in which PaymentType_Cancer_ini counts the
\* cancer.
C23_CostLandsInItsYear ==
    \A zz \in Patients :
       \A i \in 1..Len(costLog[zz]) :
          \A x1 \in 1..Len(costLog[zz][i].cost) :
             LET c == costLog[zz][i].cost[x1]
                 m == costLog[zz][i].money[x1]
             IN  /\ \A col \in c.Initial \cup c.Cont \cup c.Final :
                       col \in DOMAIN m /\ m[col] = col \div 4 - 1
                 /\ \A col \in c.Initial : m[col] = c.ini[1].year


\* the cancer-death check of patient zz in quarter T has run: the year
\* loop takes the patients in turn and each through the four quarters
CheckPassed(zz, T) ==
    IF zz < z THEN T <= 4 * y + 3
    ELSE IF zz > z THEN T < 4 * y
    ELSE T < time \/ (T = time /\ pc \notin {"NaturalDeath", "CancerDeath"})

\* the detected cancers of D whose countdown, below the cutoff of 21
\* quarters, has run out at time t
Due(D, t) ==
    {k \in Live(D.Cancer) : D.MortTime[k] < 21 /\ t >= D.CancerYear[k] + D.MortTime[k]}

\* C24: a patient with a detected cancer whose countdown m is below the
\* cutoff is not included once the cancer-death check of the quarter m
\* quarters after the detection has run; the check makes an included
\* patient with a countdown run out die of cancer, with one call of
\* AddCosts in tumor mode at that time, and leaves every other patient,
\* one who died of natural causes earlier in the quarter too, as they were.
C24_DiesWhenCountdownEnds ==
    /\ [](\A zz \in Patients :
            \A k \in Live(Detected[zz].Cancer) :
               (Included[zz] /\ Detected[zz].MortTime[k] < 21 /\ fault = "none")
               => ~CheckPassed(zz, Detected[zz].CancerYear[k] + Detected[zz].MortTime[k]))
    /\ [][pc = "CancerDeath" /\ fault' = "none" =>
            IF Included[z] /\ Due(Detected[z], time) # {}
            THEN /\ ~Included'[z] /\ DeathCause'[z] = 2 /\ DeathYear'[z] = time
                 /\ Len(costLog'[z]) = Len(costLog[z]) + 1
                 /\ costLog'[z][Len(costLog'[z])].mode = "tu"
                 /\ costLog'[z][Len(costLog'[z])].time = time
            ELSE /\ Included' = Included /\ DeathCause' = DeathCause
                 /\ DeathYear' = DeathYear /\ costLog' = costLog]_vars

\* C24 witness: a patient has died of cancer in the quarter in which the
\* countdown of a detected cancer, begun in an earlier quarter, ended.
C24_Witness ==
    \E zz \in Patients :
       /\ DeathCause[zz] = 2 /\ ~Included[zz]
       /\ \E k \in Live(Detected[zz].Cancer) :
             /\ Detected[zz].MortTime[k] \in 1..20
             /\ DeathYear[zz] = Detected[zz].CancerYear[k] + Detected[zz].MortTime[k]
       /\ Len(costLog[zz]) > 0
       /\ costLog[zz][Len(costLog[zz])].mode = "tu"


\* the colonoscopies of the step just taken
ColonoscopyCalls == {k \in 1..Len(calls) : calls[k].proc = "Colonoscopy"}

\* C25 as stated: a visit that detected a cancer is billed in the
\* cancer-found tier, also when it removed polyps; otherwise a visit that
\* removed a polyp in the polyp-found tier; otherwise in the no-finding tier.
C25_CancerTierFirst ==
    \A k \in ColonoscopyCalls :
       calls[k].tier = IF calls[k].cancers > 0 THEN "Colonoscopy_Cancer"
                       ELSE IF calls[k].polyps > 0 THEN "Colonoscopy_Polyp"
                       ELSE "Colonoscopy"

\* C25 as the code has it: a visit that removed a polyp is billed in the
\* polyp-found tier, also when it detected a cancer; otherwise a visit that
\* detected a cancer in the cancer-found tier; otherwise in the no-finding
\* tier.
C25_PolypTierFirst ==
    \A k \in ColonoscopyCalls :
       calls[k].tier = IF calls[k].polyps > 0 THEN "Colonoscopy_Polyp"
                       ELSE IF calls[k].cancers > 0 THEN "Colonoscopy_Cancer"
                       ELSE "Colonoscopy"

\* C25 witness: a visit has removed a polyp and detected a cancer.
C25_Witness ==
    \E k \in ColonoscopyCalls : calls[k].polyps > 0 /\ calls[k].cancers > 0


\* C26: in tumor mode, for a detected cancer that lasted k quarters with
\* 1 < k <= 20, AddCosts charges each quarter from that of the detection up
\* to, and not including, the last one at exactly one rate: the first at the
\* initial rate, the last min(4, k - 1) at the final rate and those between
\* at the continuing rate.
C26_TumorModeQuarters ==
    \A a \in Allocations :
       LET k    == a.Ende - a.Start
           last == IF k - 1 < 4 THEN k - 1 ELSE 4
       IN  (a.mode = "tu" /\ k > 1 /\ k <= 20)
           => /\ a.cost.Initial = {a.Start}
              /\ a.cost.Final = (a.Ende - last)..(a.Ende - 1)
              /\ a.cost.Cont = (a.Start + 1)..(a.Ende - last - 1)

\* C26 witness: a cancer that lasted seven quarters has been charged in
\* tumor mode, two of the quarters at the continuing rate.
C26_Witness ==
    \E a \in Allocations :
       a.mode = "tu" /\ a.Ende - a.Start = 7 /\ Cardinality(a.cost.Cont) = 2


\* C27: in other-cause mode AddCosts writes no column at the final rate
\* and adds nothing to PaymentType_Cancer_fin, whatever the stage and the
\* duration, and the last quarter charged of a cancer that lasted more than
\* a quarter is at the continuing rate; the final rate is used in tumor
\* mode only.
C27_OtherCauseNeverFinal ==
    \A a \in Allocations :
       /\ a.mode = "oc" =>
             /\ a.cost.Final = {} /\ a.cost.fin = << >>
             /\ a.Ende - a.Start > 1 => (a.Ende - 1) \in a.cost.Cont
       /\ (a.cost.Final # {} \/ a.cost.fin # << >>) => a.mode = "tu"

\* C27 witness: a cancer that lasted three quarters has been charged in
\* other-cause mode, two of them at the continuing rate.
C27_Witness ==
    \E a \in Allocations :
       a.mode = "oc" /\ a.Ende - a.Start = 3 /\ Cardinality(a.cost.Cont) = 2

\* ---------------------------------------------------------------- C28
\* the polyps the progression loop reads on entry: the first count slots
ReadByProgression == 1 .. count_nonzero(Polyp[z].Polyps)

\* the sum of a year's column of DirectCancer
FastTracked(counts) == counts[1] + counts[2] + counts[3] + counts[4] + counts[5]

\* C28: in the progression step of a quarter a polyp either progresses or
\* is fast-tracked, never both.  Every cancer record the step creates is
\* counted once, in ProgressedCancer if a polyp progressed beyond stage 6 and
\* in DirectCancer under the polyp's stage if it was fast-tracked, and the
\* step creates at most one record per polyp it reads.  A polyp that progressed to a higher polyp stage is still
\* listed and no cancer has been made of it.
C28_ProgressionExcludesFastTrack ==
    [][(pc = "Progress" /\ fault' = "none") =>
         LET P       == Polyp[z]
             created == count_nonzero(Ca'[z].Cancer) - count_nonzero(Ca[z].Cancer)
             dp      == ProgressedCancer' - ProgressedCancer
             df      == FastTracked(DirectCancerCount') - FastTracked(DirectCancerCount)
             fresh   == (count_nonzero(Ca[z].Cancer) + 1) .. count_nonzero(Ca'[z].Cancer)
         IN  /\ created = dp + df
             /\ created <= Cardinality(ReadByProgression)
             /\ dp >= 0
             /\ dp <= Cardinality({i \in ReadByProgression : P.Polyps[i] = 6})
             /\ \A s \in 1..5 :
                  /\ DirectCancerCount'[s] >= DirectCancerCount[s]
                  /\ DirectCancerCount'[s] - DirectCancerCount[s]
                        <= Cardinality({i \in ReadByProgression : P.Polyps[i] = s})
             /\ \A i \in ReadByProgression :
                  (P.PolypYear[i] # 0
                     /\ \E j \in 1..Len(Polyp'[z].Polyps) :
                          /\ Polyp'[z].Polyps[j] # 0
                          /\ Polyp'[z].PolypYear[j] = P.PolypYear[i])
                  => \A k \in fresh : Ca'[z].DwellTime[k] # time - P.PolypYear[i]
      ]_vars

\* a polyp has just been fast-tracked while another one of the same pass
\* stays listed at a higher polyp stage
C28_Witness ==
    /\ pc = "Regress"
    /\ fault = "none"
    /\ FastTracked(DirectCancerCount) > 0
    /\ ProgressedCancer = 0
    /\ \E k \in 1..CaCap : Ca[z].Cancer[k] # 0 /\ Ca[z].CancerYear[k] = time
    /\ \E i \in 1..(PolypCap + 1) : Polyp[z].Polyps[i] > 1

\* ---------------------------------------------------------------- C29
\* the undetected cancers of patient zz whose symptom time has come
Overdue(zz) ==
    {k \in 1..CaCap : Ca[zz].Cancer[k] # 0 /\ Ca[zz].SympTime[k] <= time}

\* the colonoscopies for symptoms in the step
SymptomVisits ==
    {k \in 1..Len(calls') : calls'[k].proc = "Colonoscopy" /\ calls'[k].Modus = "Symp"}

\* C29: the symptom step of a quarter is reached by included patients only
\* and, unless the run aborts in it, performs one colonoscopy for symptoms if an undetected cancer of the
\* patient has reached its symptom time, and none otherwise; no other step
\* performs one, so there is at most one per patient and quarter.  A cancer
\* whose symptom time has come stays listed, with that symptom time, until a
\* procedure is performed on the patient or the patient is excluded: if the
\* colonoscopy misses it, the symptom step of the next quarter finds it due.
C29_SymptomsBringColonoscopy ==
    [][/\ pc = "Symptom" => Included[z]
       /\ (pc = "Symptom" /\ fault' = "none") =>
             /\ \A k \in SymptomVisits : calls'[k].z = z
             /\ Cardinality(SymptomVisits) = IF Overdue(z) # {} THEN 1 ELSE 0
       /\ pc # "Symptom" => SymptomVisits = {}
       /\ \A zz \in Patients : \A k \in Overdue(zz) :
            \/ ~Included'[zz]
            \/ pc' = "aborted"
            \/ \E c \in 1..Len(calls') : calls'[c].z = zz
            \/ \E j \in 1..CaCap :
                 /\ Ca'[zz].Cancer[j] # 0
                 /\ Ca'[zz].CancerYear[j] = Ca[zz].CancerYear[k]
                 /\ Ca'[zz].SympTime[j] = Ca[zz].SympTime[k]
      ]_vars

\* a colonoscopy for symptoms has just missed a cancer whose symptom time
\* had come in an earlier quarter
C29_Witness ==
    /\ pc = "CancerProgression"
    /\ \E c \in 1..Len(calls) : calls[c].proc = "Colonoscopy" /\ calls[c].Modus = "Symp"
    /\ Included[z]
    /\ \E k \in Overdue(z) : Ca[z].SympTime[k] < time

\* ---------------------------------------------------------------- C30
\* the rectosigmoidoscopies of patient zz in the step
Examinations(zz) ==
    {k \in 1..Len(calls') : calls'[k].proc = "RectoSigmo" /\ calls'[k].z = zz}

\* the records of the live polyps in the slots S
LivePolyps(P, S) == {PolypRecord(P, i) : i \in {j \in S : P.Polyps[j] # 0}}

\* the study whose protocol the examination follows
Protocol ==
    IF flag("Schoen") THEN "Schoen" ELSE IF flag("Atkin") THEN "Atkin"
    ELSE IF flag("Segnan") THEN "Segnan" ELSE "default"

\* C30: a rectosigmoidoscopy that is not followed by a colonoscopy in the
\* same step removes, of the polyps it reads, exactly the ones it detects
\* within its reach that the protocol tells it to remove: those beyond
\* stage 2 under Atkin, those up to stage 2 under Segnan, none under Schoen
\* and by default.  Every other polyp stays as it was, and under Segnan the
\* polyp flag is raised exactly if a polyp beyond stage 2 was detected.
C30_RemovalFollowsProtocol ==
    [][\A c \in Examinations(z) :
         (fault' = "none" /\ Visits(z) = {}) =>
           LET P      == Polyp[z]
               e      == calls'[c]
               read   == 1 .. count_nonzero(P.Polyps)
               found  == {i \in read : /\ P.Polyps[i] # 0
                                       /\ e.pdet[i - 1]
                                       /\ P.PolypLocation[i] >= e.reach}
               remove == CASE Protocol = "Atkin"  -> {i \in found : P.Polyps[i] > 2}
                           [] Protocol = "Segnan" -> {i \in found : P.Polyps[i] <= 2}
                           [] OTHER               -> {}
           IN  /\ LivePolyps(Polyp'[z], 1..(PolypCap + 1))
                    = LivePolyps(P, (1..(PolypCap + 1)) \ remove)
               /\ Protocol = "Segnan" =>
                    (e.PolypFlag # 0 <=> \E i \in found : P.Polyps[i] > 2)
      ]_vars

\* an examination has just removed one detected polyp and left another
\* detected polyp in place
C30_Witness ==
    /\ pc = "Special"
    /\ Protocol \in {"Atkin", "Segnan"}
    /\ \E c \in 1..Len(calls) :
         /\ calls[c].proc = "RectoSigmo"
         /\ \A f \in DOMAIN calls[c].pdet : calls[c].pdet[f]
         /\ calls[c].reach = 1
         /\ Cardinality(DOMAIN calls[c].pdet) = 2
    /\ count_nonzero(Polyp[z].Polyps) = 1

\* ---------------------------------------------------------------- C31
\* C31: a rectosigmoidoscopy that is not followed by a colonoscopy in the
\* same step leaves the patient's undetected cancers and detected-cancer
\* records exactly as they were, whatever it saw; and a patient's list of
\* detected-cancer records grows only in a step with a colonoscopy of that
\* patient (steps that abort on an index fault aside).
C31_RectoSigmoLeavesCancers ==
    [][\A zz \in Patients :
         /\ (Examinations(zz) # {} /\ Visits(zz) = {} /\ fault' = "none") =>
               (Ca'[zz] = Ca[zz] /\ Detected'[zz] = Detected[zz])
         /\ (count_nonzero(Detected'[zz].Cancer) > count_nonzero(Detected[zz].Cancer)
               /\ fault' = "none") => Visits(zz) # {}
      ]_vars

\* a rectosigmoidoscopy has just seen a cancer within its reach and the
\* patient did not follow the referral to colonoscopy
C31_Witness ==
    /\ pc = "Special"
    /\ \A c \in 1..Len(calls) : calls[c].proc # "Colonoscopy"
    /\ \E c \in 1..Len(calls) :
         /\ calls[c].proc = "RectoSigmo"
         /\ calls[c].z = z
         /\ \E f \in DOMAIN calls[c].cdet :
              /\ calls[c].cdet[f]
              /\ Ca[z].Cancer[f + 1] # 0
              /\ Ca[z].CancerLocation[f + 1] >= calls[c].reach
    /\ Included[z]

\* ---------------------------------------------------------------- C32
\* the follow-up colonoscopies of patient zz in the step
FollowUps(zz) ==
    {k \in 1..Len(calls') : /\ calls'[k].proc = "Colonoscopy"
                            /\ calls'[k].Modus = "Foll"
                            /\ calls'[k].z = zz}

C33_ScheduledCareInFirstQuarter ==
    [][q # 1 =>
         /\ \A c \in 1..Len(calls') :
              calls'[c].proc = "Colonoscopy" /\ calls'[c].Modus = "Symp"
         /\ \A zz \in Patients :
              /\ Last'[zz].ScreenTest = Last[zz].ScreenTest
              /\ ScreeningPreference'[zz] = ScreeningPreference[zz]
      ]_vars

\* in a later quarter of a year a patient with a cancer on record, for whom
\* surveillance is on, has just had a colonoscopy for symptoms
C33_Witness ==
    /\ q # 1
    /\ pc = "CancerProgression"
    /\ flag("Cancer_Surveillance")
    /\ Last[z].Cancer # NoHistory
    /\ \E c \in 1..Len(calls) : calls[c].proc = "Colonoscopy" /\ calls[c].Modus = "Symp"


\* ---------------------------------------------------------------- C34
\* C34: once the tables are built, in the location table and in the female
\* column of the gender table rows 0 to 4 hold the early multiplier, row 5
\* the advanced multiplier and rows 6 to 9 the cancer multiplier.
C34_StageRowsAlike ==
    (pc # "Tables" /\ fault = "none" /\ "female" \in DOMAIN cfg) =>
       \A row \in StageRows :
          /\ cfg.LocationProgression[row] =
                IF row <= 4 THEN cfg.Location.EarlyProgression
                ELSE IF row = 5 THEN cfg.Location.AdvancedProgression
                ELSE cfg.Location.CancerProgression
          /\ row <= 4 => cfg.GenderProgression[row][1] = cfg.female.early_progression_female
          /\ row = 5 => cfg.GenderProgression[row][1] = cfg.female.advanced_progression_female


\* ---------------------------------------------------------------- C35
\* the patients excluded in a year before the current one
ExcludedEarlier == {zz \in Patients : ~Included[zz] /\ DeathYear[zz] \div 4 < y}

\* C35: for a patient excluded in an earlier year the current year's
\* entries of NumPolyps, MaxPolyps, NumCancer and MaxCancer are zero.
C35_PrevalenceOfTheLiving ==
    \A zz \in ExcludedEarlier :
       /\ Prevalence.NumPolyps[zz] = 0 /\ Prevalence.MaxPolyps[zz] = 0
       /\ Prevalence.NumCancer[zz] = 0 /\ Prevalence.MaxCancer[zz] = 0


\* C36: a patient's death cause becomes cancer only in the cancer-death
\* check of a quarter in which the patient has a detected-cancer record
\* whose countdown, below the cutoff, has run out; so a patient recorded as
\* dead of cancer has such a record, due at the quarter of the death, and a
\* dead patient without a detected record died of natural causes or of a
\* procedure, however many undetected cancers the patient carries.
C36_CancerDeathNeedsDetection ==
    /\ [](\A zz \in Patients :
            /\ DeathCause[zz] = 2 => Due(Detected[zz], DeathYear[zz]) # {}
            /\ (DeathCause[zz] # 0 /\ Live(Detected[zz].Cancer) = {})
                  => DeathCause[zz] \in {1, 3})
    /\ [][\A zz \in Patients :
            (DeathCause'[zz] = 2 /\ DeathCause[zz] # 2)
            => /\ pc = "CancerDeath" /\ zz = z /\ Included[zz]
               /\ Due(Detected[zz], time) # {}
               /\ DeathYear'[zz] = time]_vars

\* C36 witness: a patient has died of cancer, in the quarter of the
\* cancer-death check, with a detected record found in an earlier quarter
\* and due at the death.
C36_Witness ==
    \E zz \in Patients :
       /\ DeathCause[zz] = 2 /\ ~Included[zz]
       /\ \E k \in Due(Detected[zz], DeathYear[zz]) : Detected[zz].CancerYear[k] < DeathYear[zz]


\* C37: in every state an included patient is alive, and the death cause
\* is 0 exactly for the included patients; a death of cancer or of a
\* procedure leaves Alive as it is, and the natural death of a patient
\* excluded before happens in the natural-death step, records its quarter
\* in NaturalDeathYear and leaves DeathCause and DeathYear alone.
C37_ExclusionBookkeeping ==
    /\ [](\A zz \in Patients :
            /\ Included[zz] => Alive[zz]
            /\ Included[zz] <=> DeathCause[zz] = 0)
    /\ [][\A zz \in Patients :
            /\ (Included[zz] /\ ~Included'[zz] /\ DeathCause'[zz] \in {2, 3})
                  => Alive'[zz] /\ Alive[zz]
            /\ (~Included[zz] /\ Alive[zz] /\ ~Alive'[zz])
                  => /\ pc = "NaturalDeath" /\ zz = z
                     /\ NaturalDeathYear'[zz] = time
                     /\ DeathCause'[zz] = DeathCause[zz]
                     /\ DeathYear'[zz] = DeathYear[zz]]_vars

\* C37 witness: a patient excluded by a death of cancer or of a procedure
\* has had the natural death in a later quarter, and the records of the
\* first death stand.
C37_Witness ==
    \E zz \in Patients :
       /\ ~Included[zz] /\ DeathCause[zz] \in {2, 3} /\ ~Alive[zz]
       /\ NaturalDeathYear[zz] > DeathYear[zz]


\* the cancer records the step has added to the detected list of zz
NewlyDetected(zz) ==
    {k \in Live(Detected'[zz].Cancer) : k > count_nonzero(Detected[zz].Cancer)}

\* C38: the stage of an undetected cancer is at most the symptom stage
\* sampled when it appeared, the transition times to the stages beyond
\* that one being 1000 years; and a cancer record added to the detected
\* list carries the stage of an undetected cancer of the patient, so a
\* stage at most that cancer's symptom stage.
C38_StageWithinSymptomStage ==
    /\ [](\A zz \in Patients :
            \A i \in Live(Ca[zz].Cancer) :
               /\ Ca[zz].Cancer[i] \in 7..Ca[zz].SympStage[i]
               /\ Ca[zz].SympStage[i] <= 7 => Ca[zz].TimeStage_I[i] = Never
               /\ Ca[zz].SympStage[i] <= 8 => Ca[zz].TimeStage_II[i] = Never
               /\ Ca[zz].SympStage[i] <= 9 => Ca[zz].TimeStage_III[i] = Never)
    /\ [][\A zz \in Patients :
            \A k \in NewlyDetected(zz) :
               \E i \in Live(Ca[zz].Cancer) :
                  /\ Detected'[zz].Cancer[k] = Ca[zz].Cancer[i]
                  /\ Detected'[zz].Cancer[k] <= Ca[zz].SympStage[i]]_vars

\* C38 witness: an undetected cancer has reached its symptom stage, above
\* the first, and stays there after the last transition time has passed.
C38_Witness ==
    \E zz \in Patients :
       \E i \in Live(Ca[zz].Cancer) :
          /\ Ca[zz].SympStage[i] \in 8..9
          /\ Ca[zz].Cancer[i] = Ca[zz].SympStage[i]
          /\ time > Ca[zz].TimeStage_I[i]
          /\ Ca[zz].CancerYear[i] < time


\* the per-year event logs of round(n / 10) columns
EventLogs == {"TumorRecord", "DwellTimeProgression", "DwellTimeFastCancer"}

\* C39 as stated: no write to a per-year event log falls past the log's
\* last column, whatever the size of the cohort.
C39_EventLogsFit == fault \notin EventLogs


\* C40 as stated: at the end of a run a patient who died of cancer or of a
\* procedure has NaturalDeathYear >= DeathYear, a patient who died of
\* natural causes has NaturalDeathYear = DeathYear, and a patient alive at
\* the end has the horizon as NaturalDeathYear.
C40_LostYearsNotNegative ==
    pc = "done" =>
       \A zz \in Patients :
          /\ DeathCause[zz] \in {2, 3} => NaturalDeathYear[zz] >= DeathYear[zz]
          /\ DeathCause[zz] = 1 => NaturalDeathYear[zz] = DeathYear[zz]
          /\ Alive[zz] => NaturalDeathYear[zz] = 4 * cfg.horizon

=============================================================================
